---- MODULE Spec2Model ----
(***************************************************************************)
(* LogicLab (Anas-Furqan/Logic-Gates): the expression pipeline             *)
(*   lexer -> parser -> AST -> evaluator -> truth table -> Quine-McCluskey *)
(* in its three copies: the TypeScript engine (src/src/engine), the client *)
(* library (src/client/src/lib/logic) and the server library               *)
(* (src/server/src/logic/index.js).                                        *)
(*                                                                         *)
(* A JavaScript string is a sequence of one-character strings, an array a  *)
(* sequence, an object reference an index into the array that holds it.    *)
(***************************************************************************)
EXTENDS Integers, Sequences, FiniteSets, TLC

VARIABLES qm, tt, ps, px

vars == <<qm, tt, ps, px>>

\* A component that takes no part in the specification being checked.
Idle == [pc |-> "idle"]

(***************************************************************************)
(* Bounds of the model                                                     *)
(***************************************************************************)
\* largest numVars handed to quineMcCluskey on its own
MaxVars == 3
\* largest number of nodes of a tree handed to the evaluators
MaxSize == 4
\* longest variable list handed to the truth-table generators
MaxNames == 9
\* variable lists longer than ShortList are paired with trees of at most
\* SmallSize nodes
ShortList == 3
SmallSize == 2
\* largest number of pieces strung together into a free-form input
MaxPieces == 3
MaxChain == 9
DenseChain == 4
\* the prefix NOT tokens, and the apostrophes, around one primary
MaxNots == 2
\* the largest minterm number in the lists given to quineMcCluskey
MaxMinterm == 11
\* the calls of process made on one LogicProvider
MaxCalls == 4
\* the largest minterm number of a cell holding 1 in a Karnaugh map
MaxCell == 10

(***************************************************************************)
(* Strings, arrays, numbers                                                *)
(***************************************************************************)
\* the value of a JavaScript null / of an index that was never set
Null == 0 - 1

RECURSIVE Pow2(_)
Pow2(n) == IF n <= 0 THEN 1 ELSE 2 * Pow2(n - 1)

Range(s) == {s[i] : i \in DOMAIN s}

\* the elements of a set of numbers as an ascending array
SortAsc(S) ==
  [i \in 1..Cardinality(S) |-> CHOOSE x \in S : Cardinality({y \in S : y < x}) = i - 1]

\* the indices of an array of n elements, in order (array.filter keeps it)
Indices(n) == [i \in 1..n |-> i]

\* the concatenation of an array of arrays
RECURSIVE Concat(_)
Concat(ss) ==
  IF Len(ss) = 0 THEN <<>>
  ELSE IF Len(ss) = 1 THEN ss[1]
  ELSE LET h == Len(ss) \div 2
       IN Concat(SubSeq(ss, 1, h)) \o Concat(SubSeq(ss, h + 1, Len(ss)))

\* parts.join(sep)
Join(parts, sep) ==
  Concat([i \in 1..Len(parts) |-> IF i = 1 THEN parts[i] ELSE sep \o parts[i]])

\* Number.prototype.toString(2)
RECURSIVE toString2(_)
toString2(m) ==
  IF m < 2 THEN <<IF m = 1 THEN "1" ELSE "0">>
  ELSE Append(toString2(m \div 2), IF m % 2 = 1 THEN "1" ELSE "0")

\* String.prototype.padStart(n, c)
padStart(s, n, c) ==
  IF Len(s) >= n THEN s ELSE [i \in 1..(n - Len(s)) |-> c] \o s

\* variable names in sorted order
AllNames ==
  <<<<"A">>, <<"B">>, <<"C">>, <<"D">>, <<"E">>, <<"F">>,
    <<"G">>, <<"H">>, <<"I">>, <<"J">>, <<"K">>, <<"L">>>>

(***************************************************************************)
(* Implicant (client simplifier.js)                                        *)
(***************************************************************************)
Implicant(minterms, binary) == [minterms |-> minterms, binary |-> binary]

countOnes(imp) == Cardinality({i \in 1..Len(imp.binary) : imp.binary[i] = "1"})

\* a mutant: positions holding a dash are skipped without being compared
CombineScanNoDashCheck(a, b, i, diffIndex, diffCount) ==
  LET d == {k \in 1..Len(a) : a[k] # "-" /\ b[k] # "-" /\ a[k] # b[k]}
  IN IF Cardinality(d) = 1 THEN CHOOSE k \in d : TRUE ELSE Null

\* the for loop of canCombineWith from position i on (1-based)
RECURSIVE CombineScan(_, _, _, _, _)
CombineScan(a, b, i, diffIndex, diffCount) ==
  IF i > Len(a) THEN (IF diffCount = 1 THEN diffIndex ELSE Null)
  ELSE IF a[i] = "-" \/ b[i] = "-"
       THEN (IF a[i] # b[i] THEN Null
             ELSE CombineScan(a, b, i + 1, diffIndex, diffCount))
  ELSE IF a[i] # b[i]
       THEN (IF diffCount + 1 > 1 THEN Null
             ELSE CombineScan(a, b, i + 1, i, diffCount + 1))
  ELSE CombineScan(a, b, i + 1, diffIndex, diffCount)

\* the position (1-based) at which the two patterns can be merged, or Null
canCombineWith(this, other) ==
  IF Len(this.binary) # Len(other.binary) THEN Null
  ELSE CombineScan(this.binary, other.binary, 1, Null, 0)

\* a mutant: the two minterm lists are concatenated as they are
combineWithUnsorted(this, other, diffIndex) ==
  Implicant(this.minterms \o other.minterms, [this.binary EXCEPT ![diffIndex] = "-"])

\* a mutant: the minterms of the other implicant are left out
combineWithOwnMinterms(this, other, diffIndex) ==
  Implicant(this.minterms, [this.binary EXCEPT ![diffIndex] = "-"])

\* [...new Set([...this.minterms, ...other.minterms])].sort((a, b) => a - b)
\* and the pattern with a dash at diffIndex
combineWith(this, other, diffIndex) ==
  Implicant(SortAsc(Range(this.minterms) \cup Range(other.minterms)),
            [this.binary EXCEPT ![diffIndex] = "-"])

covers(imp, minterm, numVars) ==
  LET mintermBinary == padStart(toString2(minterm), numVars, "0")
  IN \A i \in 1..Len(imp.binary) :
        imp.binary[i] = "-"
        \/ (i <= Len(mintermBinary) /\ imp.binary[i] = mintermBinary[i])

toTerm(imp, variables) ==
  LET literals == [i \in 1..Len(imp.binary) |->
                     IF imp.binary[i] = "1" THEN variables[i]
                     ELSE IF imp.binary[i] = "0" THEN variables[i] \o <<"'">>
                     ELSE <<>>]
      pushed == SelectSeq(Indices(Len(imp.binary)), LAMBDA i : imp.binary[i] # "-")
  IN IF Len(pushed) > 0 THEN Concat(literals) ELSE <<"1">>

(***************************************************************************)
(* quineMcCluskey (client simplifier.js)                                   *)
(***************************************************************************)
\* groups[ones]: the implicants (by index) with that many 1s, in array order
GroupOf(implicants, ones) ==
  SelectSeq(Indices(Len(implicants)), LAMBDA i : countOnes(implicants[i]) = ones)

\* groupKeys is Object.keys(groups).map(Number).sort((a, b) => a - b);
\* PairsOf gives the (imp1, imp2) pairs of two adjacent groups in the order
\* in which the nested loops visit them
AdjacentPairs(implicants) ==
  LET groupKeys == SortAsc({countOnes(implicants[i]) : i \in 1..Len(implicants)})
      PairsOf(g1, g2) ==
        [k \in 1..(Len(g1) * Len(g2)) |->
           <<g1[((k - 1) \div Len(g2)) + 1], g2[((k - 1) % Len(g2)) + 1]>>]
  IN Concat([i \in 1..(Len(groupKeys) - 1) |->
               PairsOf(GroupOf(implicants, groupKeys[i]),
                       GroupOf(implicants, groupKeys[i + 1]))])

\* the two inner loops over the visited pairs: a combined implicant is pushed
\* unless one with the same pattern was pushed before (by an earlier pair);
\* both implicants of every combinable pair are marked used
ComparePairs(implicants, pairs) ==
  LET diffIndex == [k \in 1..Len(pairs) |->
                      canCombineWith(implicants[pairs[k][1]], implicants[pairs[k][2]])] \o <<>>
      combined == [k \in 1..Len(pairs) |->
                     IF diffIndex[k] # Null
                     THEN combineWith(implicants[pairs[k][1]], implicants[pairs[k][2]],
                                      diffIndex[k])
                     ELSE Implicant(<<>>, <<>>)] \o <<>>
      pushed == SelectSeq(Indices(Len(pairs)),
                  LAMBDA k : /\ diffIndex[k] # Null
                             /\ \A j \in 1..(k - 1) :
                                   combined[j].binary # combined[k].binary)
  IN [newImplicants |-> [j \in 1..Len(pushed) |-> combined[pushed[j]]] \o <<>>,
      usedImplicants |-> UNION {{pairs[k][1], pairs[k][2]} :
                                  k \in {k \in 1..Len(pairs) : diffIndex[k] # Null}}]

\* a mutant: the implicants that were combined count as primes too
CombineRoundKeepsUsed(implicants) ==
  [newImplicants |-> ComparePairs(implicants, AdjacentPairs(implicants)).newImplicants,
   primes |-> implicants]

\* one iteration of the while loop: the next round and this round's primes
CombineRound(implicants) ==
  LET r == ComparePairs(implicants, AdjacentPairs(implicants))
      unused == SelectSeq(Indices(Len(implicants)), LAMBDA i : i \notin r.usedImplicants)
  IN [newImplicants |-> r.newImplicants,
      primes |-> [j \in 1..Len(unused) |-> implicants[unused[j]]]]

\* "Remove duplicate prime implicants": the first of each pattern is kept
uniquePrimeImplicants(primeImplicants) ==
  LET keep == SelectSeq(Indices(Len(primeImplicants)),
                        LAMBDA i : \A j \in 1..(i - 1) :
                                      primeImplicants[j].binary # primeImplicants[i].binary)
  IN [j \in 1..Len(keep) |-> primeImplicants[keep[j]]]

\* the implicants of minterms.map(...)
SeedImplicants(minterms, numVars) ==
  [i \in 1..Len(minterms) |->
     Implicant(<<minterms[i]>>, padStart(toString2(minterms[i]), numVars, "0"))]

\* first pass of findEssentialPrimeImplicants: a sole cover is pushed at the
\* first minterm that has it; essential holds indices into primeImplicants
\* (object identity)
FirstPass(primeImplicants, minterms, numVars) ==
  LET \* coveringPIs[0] when exactly one prime implicant covers the minterm
      SoleCover(minterm) ==
        LET coveringPIs == SelectSeq(Indices(Len(primeImplicants)),
                             LAMBDA i : covers(primeImplicants[i], minterm, numVars))
        IN IF Len(coveringPIs) = 1 THEN coveringPIs[1] ELSE Null
      sole == [k \in 1..Len(minterms) |-> SoleCover(minterms[k])] \o <<>>
      firsts == SelectSeq(Indices(Len(minterms)),
                  LAMBDA k : sole[k] # Null /\ \A j \in 1..(k - 1) : sole[j] # sole[k])
      essential == [j \in 1..Len(firsts) |-> sole[firsts[j]]] \o <<>>
  IN [essential |-> essential,
      covered |-> UNION {Range(primeImplicants[i].minterms) : i \in Range(essential)}]

\* the state with which the greedy loop is entered
GreedyEntry(primeImplicants, minterms, numVars) ==
  LET fp == FirstPass(primeImplicants, minterms, numVars)
      unc == SelectSeq(Indices(Len(minterms)), LAMBDA i : minterms[i] \notin fp.covered)
      rem == SelectSeq(Indices(Len(primeImplicants)), LAMBDA i : i \notin Range(fp.essential))
  IN [essential |-> fp.essential, covered |-> fp.covered,
      uncovered |-> [j \in 1..Len(unc) |-> minterms[unc[j]]],
      remainingPIs |-> rem, broke |-> FALSE]

CoverCount(pi, uncovered, numVars) ==
  Cardinality({j \in 1..Len(uncovered) : covers(pi, uncovered[j], numVars)})

\* a mutant: a prime implicant is picked only if it covers two uncovered minterms
BestScanNeedsTwo(primeImplicants, remainingPIs, uncovered, numVars) ==
  LET counts == [k \in 1..Len(remainingPIs) |->
                   CoverCount(primeImplicants[remainingPIs[k]], uncovered, numVars)] \o <<>>
      two == {k \in 1..Len(remainingPIs) : counts[k] > 1}
  IN IF two = {} THEN [bestPI |-> Null, bestCount |-> 0]
     ELSE LET first == CHOOSE k \in two : \A j \in two : j >= k
          IN [bestPI |-> remainingPIs[first], bestCount |-> counts[first]]

\* the for loop that picks bestPI: the first of remainingPIs with the largest
\* count, none (Null) when every count is 0
BestScan(primeImplicants, remainingPIs, uncovered, numVars) ==
  LET counts == [k \in 1..Len(remainingPIs) |->
                   CoverCount(primeImplicants[remainingPIs[k]], uncovered, numVars)] \o <<>>
      bestCount == CHOOSE c \in Range(counts) \cup {0} :
                      \A d \in Range(counts) \cup {0} : d <= c
      first == CHOOSE k \in 1..Len(remainingPIs) :
                  counts[k] = bestCount /\ \A j \in 1..(k - 1) : counts[j] # bestCount
  IN [bestPI |-> IF bestCount > 0 THEN remainingPIs[first] ELSE Null,
      bestCount |-> bestCount]

\* one iteration of the greedy while loop
GreedyIter(primeImplicants, numVars, g) ==
  LET b == BestScan(primeImplicants, g.remainingPIs, g.uncovered, numVars)
  IN IF b.bestPI # Null /\ b.bestCount > 0
     THEN LET bestPI == primeImplicants[b.bestPI]
          IN [essential |-> Append(g.essential, b.bestPI),
              covered |-> g.covered \cup Range(bestPI.minterms),
              uncovered |-> SelectSeq(g.uncovered,
                                      LAMBDA m : ~covers(bestPI, m, numVars)),
              remainingPIs |-> SelectSeq(g.remainingPIs, LAMBDA i : i # b.bestPI),
              broke |-> FALSE]
     ELSE [g EXCEPT !.broke = TRUE]

\* a mutant: the server copy leaves its loop with one minterm uncovered
GreedyContinuesServerLeavesOne(g, server) ==
  /\ Len(g.uncovered) > (IF server THEN 1 ELSE 0)
  /\ (server \/ Len(g.remainingPIs) > 0) /\ ~g.broke

\* the test of the greedy while loop; the server copy (index.js 465) tests
\* uncovered.length only
GreedyContinues(g, server) ==
  Len(g.uncovered) > 0 /\ (server \/ Len(g.remainingPIs) > 0) /\ ~g.broke

\* the return value of quineMcCluskey past the two early returns
QMResult(primeImplicants, essential, variables) ==
  LET essentialImplicants == [j \in 1..Len(essential) |-> primeImplicants[essential[j]]]
      terms == [j \in 1..Len(essential) |-> toTerm(essentialImplicants[j], variables)]
  IN [primeImplicants |-> primeImplicants,
      essentialImplicants |-> essentialImplicants,
      expression |-> IF Len(terms) > 0 THEN Join(terms, <<" ", "+", " ">>) ELSE <<"0">>]

\* the two early returns
QMDegenerate(expression) ==
  [primeImplicants |-> <<>>, essentialImplicants |-> <<>>, expression |-> expression]

\* the while loop of the combination rounds, run to its end
RECURSIVE CombineLoop(_, _)
CombineLoop(implicants, primeImplicants) ==
  IF Len(implicants) > 0
  THEN LET r == CombineRound(implicants)
       IN CombineLoop(r.newImplicants, primeImplicants \o r.primes)
  ELSE primeImplicants

\* the greedy while loop, run to its end
RECURSIVE GreedyLoop(_, _, _, _)
GreedyLoop(primeImplicants, numVars, g, server) ==
  IF GreedyContinues(g, server)
  THEN GreedyLoop(primeImplicants, numVars, GreedyIter(primeImplicants, numVars, g),
                  server)
  ELSE g

findEssentialPrimeImplicants(primeImplicants, minterms, numVars) ==
  IF Len(primeImplicants) = 0 THEN <<>>
  ELSE GreedyLoop(primeImplicants, numVars,
                  GreedyEntry(primeImplicants, minterms, numVars), FALSE).essential

quineMcCluskey(minterms, numVars, variables) ==
  IF Len(minterms) = 0 THEN QMDegenerate(<<"0">>)
  ELSE IF Len(minterms) = Pow2(numVars) THEN QMDegenerate(<<"1">>)
  ELSE LET primeImplicants ==
             uniquePrimeImplicants(CombineLoop(SeedImplicants(minterms, numVars), <<>>))
       IN QMResult(primeImplicants,
                   findEssentialPrimeImplicants(primeImplicants, minterms, numVars),
                   variables)

(***************************************************************************)
(* A run of quineMcCluskey, one loop iteration at a time                   *)
(***************************************************************************)
NoGreedy ==
  [essential |-> <<>>, covered |-> {}, uncovered |-> <<>>, remainingPIs |-> <<>>,
   broke |-> FALSE]

\* a call quineMcCluskey(minterms, numVars, variables): every set of minterms
\* up to MaxMinterm of up to MaxVars variables, and one of four variables whose prime implicants
\* 000-, 00-0, 0-01 overlap on the minterms the essential ones leave
QMInit ==
  /\ tt = Idle /\ ps = Idle /\ px = Idle
  /\ LET Start(numVars, S) ==
           [pc |-> "start", minterms |-> SortAsc(S), numVars |-> numVars,
            variables |-> SubSeq(AllNames, 1, numVars),
            implicants |-> <<>>, primeImplicants |-> <<>>, iteration |-> 0,
            g |-> NoGreedy, result |-> QMDegenerate(<<>>)]
     IN \/ \E numVars \in 0..MaxVars :
           \E S \in SUBSET {m \in 0..(Pow2(numVars) - 1) : m <= MaxMinterm} :
             qm = Start(numVars, S)
        \/ qm = Start(4, {0, 1, 2, 5, 10, 11, 12, 13})

\* lines 116-139: the early returns, else the seed implicants
QMStart ==
  /\ qm.pc = "start"
  /\ qm' = IF Len(qm.minterms) = 0
           THEN [qm EXCEPT !.pc = "done", !.result = QMDegenerate(<<"0">>)]
           ELSE IF Len(qm.minterms) = Pow2(qm.numVars)
           THEN [qm EXCEPT !.pc = "done", !.result = QMDegenerate(<<"1">>)]
           ELSE [qm EXCEPT !.pc = "combine",
                           !.implicants = SeedImplicants(qm.minterms, qm.numVars)]
  /\ UNCHANGED <<tt, ps, px>>

\* lines 150-208: one iteration of the combination loop
QMCombine ==
  /\ qm.pc = "combine"
  /\ Len(qm.implicants) > 0
  /\ LET r == CombineRound(qm.implicants)
     IN qm' = [qm EXCEPT !.iteration = @ + 1,
                         !.implicants = r.newImplicants,
                         !.primeImplicants = @ \o r.primes]
  /\ UNCHANGED <<tt, ps, px>>

\* lines 210-221 and 263-282: de-duplication, first pass, entry of the greedy loop
QMEssential ==
  /\ qm.pc = "combine"
  /\ Len(qm.implicants) = 0
  /\ LET primeImplicants == uniquePrimeImplicants(qm.primeImplicants)
     IN qm' = [qm EXCEPT !.pc = "greedy",
                         !.primeImplicants = primeImplicants,
                         !.g = IF Len(primeImplicants) = 0 THEN NoGreedy
                               ELSE GreedyEntry(primeImplicants, qm.minterms, qm.numVars)]
  /\ UNCHANGED <<tt, ps, px>>

\* lines 284-312: one iteration of the greedy loop
QMGreedy ==
  /\ qm.pc = "greedy"
  /\ GreedyContinues(qm.g, FALSE)
  /\ qm' = [qm EXCEPT !.g = GreedyIter(qm.primeImplicants, qm.numVars, qm.g)]
  /\ UNCHANGED <<tt, ps, px>>

\* lines 248-257: the expression and the return value
QMFinish ==
  /\ qm.pc = "greedy"
  /\ ~GreedyContinues(qm.g, FALSE)
  /\ qm' = [qm EXCEPT !.pc = "done",
                      !.result = QMResult(qm.primeImplicants, qm.g.essential, qm.variables)]
  /\ UNCHANGED <<tt, ps, px>>

QMNext == QMStart \/ QMCombine \/ QMEssential \/ QMGreedy \/ QMFinish

SpecQM == QMInit /\ [][QMNext]_vars

(***************************************************************************)
(* One pair of implicants in the inner loops of quineMcCluskey             *)
(***************************************************************************)
\* two implicants with patterns of the same length, up to MaxVars, over 0, 1
\* and -, and minterm lists as a caller of the constructor may give them
CombineInit ==
  /\ tt = Idle /\ ps = Idle /\ px = Idle
  /\ \E n \in 1..MaxVars :
     \E a \in [1..n -> {"0", "1", "-"}], b \in [1..n -> {"0", "1", "-"}] :
     \E ma \in {<<0, 1>>, <<2, 3>>, <<3, 1>>, <<1>>}, mb \in {<<0, 1>>, <<2, 3>>, <<3, 1>>, <<1>>} :
       qm = [pc |-> "pair", this |-> Implicant(ma, a), other |-> Implicant(mb, b),
             diffIndex |-> Null, combined |-> Implicant(<<>>, <<>>)]

\* lines 172-175: diffIndex = imp1.canCombineWith(imp2) and, unless it is
\* null, combined = imp1.combineWith(imp2, diffIndex)
Combine ==
  /\ qm.pc = "pair"
  /\ LET diffIndex == canCombineWith(qm.this, qm.other)
     IN qm' = [qm EXCEPT !.pc = "combined", !.diffIndex = diffIndex,
                         !.combined = IF diffIndex # Null
                                      THEN combineWith(qm.this, qm.other, diffIndex)
                                      ELSE @]
  /\ UNCHANGED <<tt, ps, px>>

SpecCombine == CombineInit /\ [][Combine]_vars

(***************************************************************************)
(* Reading a sum-of-products string back                                   *)
(***************************************************************************)
\* expr.split(" + "): the pieces between the occurrences of the separator
SplitTerms(expr) ==
  LET n == Len(expr)
      seps == SelectSeq(Indices(n), LAMBDA i : i + 2 <= n /\ SubSeq(expr, i, i + 2) = <<" ", "+", " ">>)
      from == [k \in 1..(Len(seps) + 1) |-> IF k = 1 THEN 1 ELSE seps[k - 1] + 3]
      to == [k \in 1..(Len(seps) + 1) |-> IF k > Len(seps) THEN n ELSE seps[k] - 1]
  IN [k \in 1..(Len(seps) + 1) |-> SubSeq(expr, from[k], to[k])]

\* the bit of variables[j] in input combination m (variables[1] is the MSB)
BitOf(m, j, n) == (m \div Pow2(n - j)) % 2

\* a product term is true at m: every literal (a one-letter name of variables,
\* primed or not) is; "1" is the empty product and "0" the empty sum
RECURSIVE TermTrue(_, _, _)
TermTrue(term, variables, m) ==
  IF term = <<>> THEN TRUE
  ELSE IF term = <<"1">> THEN TRUE
  ELSE IF term = <<"0">> THEN FALSE
  ELSE LET js == {j \in 1..Len(variables) : variables[j] = <<term[1]>>}
           primed == Len(term) >= 2 /\ term[2] = "'"
           rest == SubSeq(term, IF primed THEN 3 ELSE 2, Len(term))
       IN /\ js # {}
          /\ \A j \in js : BitOf(m, j, Len(variables)) = (IF primed THEN 0 ELSE 1)
          /\ TermTrue(rest, variables, m)

SopTrue(expr, variables, m) ==
  LET terms == SplitTerms(expr)
  IN \E k \in 1..Len(terms) : terms[k] # <<>> /\ TermTrue(terms[k], variables, m)

(***************************************************************************)
(* AST nodes.  One record shape serves the TypeScript tagged union         *)
(* (types.ts: type LITERAL, value a boolean) and the class hierarchy       *)
(* (ast.js: type CONSTANT, value 0 or 1); kids holds operand or left,right *)
(***************************************************************************)
BinaryTypes == {"AND", "OR", "XOR", "NAND", "NOR", "XNOR"}

Node(type, name, value, kids, id) ==
  [type |-> type, name |-> name, value |-> value, kids |-> kids, id |-> id]

\* TypeScript nodes (parser.ts parsePrimary, createUnaryNode, createBinaryNode)
ASTVariable(name, id) == Node("VARIABLE", name, FALSE, <<>>, id)
ASTLiteral(value, id) == Node("LITERAL", <<>>, value, <<>>, id)
ASTUnaryOp(operand, id) == Node("NOT", <<>>, FALSE, <<operand>>, id)
ASTBinaryOp(type, left, right, id) == Node(type, <<>>, FALSE, <<left, right>>, id)

\* class-based nodes (ast.js constructors); ConstantNode stores value ? 1 : 0
VariableNode(name, id) == Node("VARIABLE", name, 0, <<>>, id)
ConstantNode(value, id) == Node("CONSTANT", <<>>, IF value # 0 THEN 1 ELSE 0, <<>>, id)
NotNode(operand, id) == Node("NOT", <<>>, 0, <<operand>>, id)
BinaryNode(type, left, right, id) == Node(type, <<>>, 0, <<left, right>>, id)

RECURSIVE NodesOf(_)
NodesOf(node) ==
  {node} \cup UNION {NodesOf(node.kids[k]) : k \in 1..Len(node.kids)}

\* extractVariables / getVariables, as a set
VariablesOf(node) == {n.name : n \in {m \in NodesOf(node) : m.type = "VARIABLE"}}

RECURSIVE Size(_)
Size(node) ==
  IF Len(node.kids) = 0 THEN 1
  ELSE IF Len(node.kids) = 1 THEN 1 + Size(node.kids[1])
  ELSE 1 + Size(node.kids[1]) + Size(node.kids[2])

\* a tree without its ids: two trees are structurally equal when their
\* shapes are
RECURSIVE Shape(_)
Shape(node) ==
  [type |-> node.type, name |-> node.name,
   literal |-> IF node.type = "LITERAL" THEN node.value
               ELSE IF node.type = "CONSTANT" THEN node.value = 1 ELSE FALSE,
   kids |-> [k \in 1..Len(node.kids) |-> Shape(node.kids[k])]]

(***************************************************************************)
(* evaluate, evaluateWithTrace (evaluator.ts)                              *)
(***************************************************************************)
\* a returned value, or the thrown "Undefined variable" error
Returned(value) == [threw |-> FALSE, value |-> value, name |-> <<>>]
Thrown(name) == [threw |-> TRUE, value |-> FALSE, name |-> name]

\* the operand of an operator after which || and && do not evaluate the right one
ShortCircuits(type, left) ==
  \/ type \in {"AND", "NAND"} /\ ~left
  \/ type \in {"OR", "NOR"} /\ left

\* a mutant: XNOR compares as XOR does
BinaryValueXnorUnequal(type, l, r) ==
  CASE type = "AND" -> l /\ r
    [] type = "OR" -> l \/ r
    [] type \in {"XOR", "XNOR"} -> l # r
    [] type = "NAND" -> ~(l /\ r)
    [] type = "NOR" -> ~(l \/ r)

\* the value of a binary node whose two operands were evaluated
BinaryValue(type, l, r) ==
  CASE type = "AND" -> l /\ r
    [] type = "OR" -> l \/ r
    [] type = "XOR" -> l # r
    [] type = "NAND" -> ~(l /\ r)
    [] type = "NOR" -> ~(l \/ r)
    [] type = "XNOR" -> l = r

\* the value of a binary node whose right operand was skipped
SkippedValue(type) == type \in {"OR", "NAND"}

RECURSIVE evaluate(_, _)
evaluate(node, bindings) ==
  IF node.type = "VARIABLE"
  THEN (IF node.name \in DOMAIN bindings THEN Returned(bindings[node.name])
        ELSE Thrown(node.name))
  ELSE IF node.type = "LITERAL" THEN Returned(node.value)
  ELSE IF node.type = "NOT"
  THEN LET o == evaluate(node.kids[1], bindings)
       IN IF o.threw THEN o ELSE Returned(~o.value)
  ELSE LET l == evaluate(node.kids[1], bindings)
       IN IF l.threw THEN l
          ELSE IF ShortCircuits(node.type, l.value)
          THEN Returned(SkippedValue(node.type))
          ELSE LET r == evaluate(node.kids[2], bindings)
               IN IF r.threw THEN r
                  ELSE Returned(BinaryValue(node.type, l.value, r.value))

\* eval_trace(n) with the Map it writes to; the result carries the Map
RECURSIVE eval_trace(_, _, _)
eval_trace(n, bindings, trace) ==
  LET Done(value, t) == [threw |-> FALSE, value |-> value, name |-> <<>>,
                         trace |-> [k \in DOMAIN t \cup {n.id} |->
                                      IF k = n.id THEN value ELSE t[k]]]
      Fail(name, t) == [threw |-> TRUE, value |-> FALSE, name |-> name, trace |-> t]
  IN IF n.type = "VARIABLE"
     THEN (IF n.name \in DOMAIN bindings THEN Done(bindings[n.name], trace)
           ELSE Fail(n.name, trace))
     ELSE IF n.type = "LITERAL" THEN Done(n.value, trace)
     ELSE IF n.type = "NOT"
     THEN LET o == eval_trace(n.kids[1], bindings, trace)
          IN IF o.threw THEN o ELSE Done(~o.value, o.trace)
     ELSE LET l == eval_trace(n.kids[1], bindings, trace)
          IN IF l.threw THEN l
             ELSE IF ShortCircuits(n.type, l.value)
             THEN Done(SkippedValue(n.type), l.trace)
             ELSE LET r == eval_trace(n.kids[2], bindings, l.trace)
                  IN IF r.threw THEN r
                     ELSE Done(BinaryValue(n.type, l.value, r.value), r.trace)

evaluateWithTrace(node, bindings) == eval_trace(node, bindings, <<>>)

(***************************************************************************)
(* node.evaluate(values) of the class-based AST: client ast.js and the     *)
(* copy in server/src/logic/index.js.  Values are the numbers 0 and 1.     *)
(***************************************************************************)
Truthy(v) == v # 0

\* node.evaluate(values) of the classes of ast.js.  VariableNode.evaluate of
\* ast.js throws unless (name in values); that of the server copy (server |->
\* TRUE) is values[name] ? 1 : 0, and undefined is falsy
RECURSIVE nodeEvaluate(_, _, _)
nodeEvaluate(node, values, server) ==
  LET Num(b) == Returned(IF b THEN 1 ELSE 0)
  IN IF node.type = "VARIABLE"
     THEN (IF server
           THEN Num(node.name \in DOMAIN values /\ Truthy(values[node.name]))
           ELSE IF node.name \in DOMAIN values THEN Num(Truthy(values[node.name]))
           ELSE Thrown(node.name))
     ELSE IF node.type = "CONSTANT" THEN Returned(node.value)
     ELSE IF node.type = "NOT"
     THEN LET o == nodeEvaluate(node.kids[1], values, server)
          IN IF o.threw THEN o ELSE Num(~Truthy(o.value))
     ELSE LET l == nodeEvaluate(node.kids[1], values, server)
          IN IF l.threw THEN l
             ELSE IF ShortCircuits(node.type, Truthy(l.value))
             THEN Num(SkippedValue(node.type))
             ELSE LET r == nodeEvaluate(node.kids[2], values, server)
                  IN IF r.threw THEN r
                     ELSE Num(BinaryValue(node.type, Truthy(l.value), Truthy(r.value)))

(***************************************************************************)
(* Truth tables: TypeScript engine (truthTable.ts with evaluator.ts), the   *)
(* client library (truthTable.js) and the server copy                      *)
(***************************************************************************)
MAX_VARIABLES == 8

\* a mutant: the bit is inverted
ShiftBitInverted(i, k) == 1 - ((i \div Pow2(k)) % 2)

\* (i >> k) & 1
ShiftBit(i, k) == (i \div Pow2(k)) % 2

\* the object built by the inner loop of generateCombinations for row i: a
\* later assignment to the same key overwrites an earlier one
RowObject(variables, i) ==
  LET n == Len(variables)
      last(name) == CHOOSE j \in 1..n :
                      variables[j] = name /\ \A k \in (j + 1)..n : variables[k] # name
  IN [name \in Range(variables) |-> ShiftBit(i, n - last(name))]

\* evaluator.ts generateCombinations: Boolean(bit), row i at index i + 1
generateCombinations(variables) ==
  [r \in 1..Pow2(Len(variables)) |->
     LET row == RowObject(variables, r - 1)
     IN [name \in DOMAIN row |-> row[name] = 1]]

\* minterm |= (1 << (variables.length - 1 - i)) for the positions from k on
RECURSIVE MintermBits(_, _, _)
MintermBits(binding, variables, k) ==
  IF k > Len(variables) THEN {}
  ELSE (IF binding[variables[k]] THEN {Len(variables) - k} ELSE {})
       \cup MintermBits(binding, variables, k + 1)

RECURSIVE SumPow2(_)
SumPow2(bits) ==
  IF bits = {} THEN 0
  ELSE LET b == CHOOSE x \in bits : TRUE IN Pow2(b) + SumPow2(bits \ {b})

\* a mutant: the first variable is taken as the least-significant bit
getMintermNumberLSBFirst(binding, variables) ==
  SumPow2({k - 1 : k \in {j \in 1..Len(variables) : binding[variables[j]]}})

getMintermNumber(binding, variables) == SumPow2(MintermBits(binding, variables, 1))

\* evaluator.ts getMaxtermNumber: return getMintermNumber(binding, variables)
getMaxtermNumber(binding, variables) == getMintermNumber(binding, variables)

\* what a call gives back: a table, or the error it threw
TableOf(variables, rows) ==
  [threw |-> FALSE, message |-> "", variables |-> variables, rows |-> rows]
TableError(message) ==
  [threw |-> TRUE, message |-> message, variables |-> <<>>, rows |-> <<>>]

\* truthTable.ts generateTruthTable; an error thrown by evaluate leaves map()
generateTruthTable(ast, variables) ==
  IF Len(variables) > MAX_VARIABLES THEN TableError("Too many variables")
  ELSE LET combinations == generateCombinations(variables) \o <<>>
           numCombinations == Pow2(Len(variables))
           outputs == [r \in 1..Len(combinations) |-> evaluate(ast, combinations[r])] \o <<>>
       IN IF \E r \in 1..Len(outputs) : outputs[r].threw
          THEN TableError("Undefined variable")
          ELSE TableOf(variables,
                 [r \in 1..Len(combinations) |->
                    LET minterm == getMintermNumber(combinations[r], variables)
                    IN [inputs |-> combinations[r], output |-> outputs[r].value,
                        minterm |-> minterm,
                        maxterm |-> numCombinations - 1 - minterm]])

\* generateTruthTable(ast, variableOrder) of truthTable.js, with an array
\* given, and of server/src/logic/index.js (server |-> TRUE): combinations is
\* generateCombinations(variables) (the loop of the server copy), a row is
\* made by try { ast.evaluate } catch { null }
generateTruthTable_js(ast, variables, server) ==
  LET combinations == [r \in 1..Pow2(Len(variables)) |->
                         RowObject(variables, r - 1)] \o <<>>
      rows == [r \in 1..Len(combinations) |->
                 LET o == nodeEvaluate(ast, combinations[r], server)
                 IN [index |-> r - 1, inputs |-> combinations[r],
                     output |-> IF o.threw THEN Null ELSE o.value,
                     error |-> o.threw]]
  IN TableOf(variables, rows)

(***************************************************************************)
(* Characters.  A character outside ASCII is written by its code point     *)
(* ("U+2227" is the one character of the logical-and sign of lexer.ts).    *)
(***************************************************************************)
UpperCase ==
  <<"A", "B", "C", "D", "E", "F", "G", "H", "I", "J", "K", "L", "M",
    "N", "O", "P", "Q", "R", "S", "T", "U", "V", "W", "X", "Y", "Z">>
LowerCase ==
  <<"a", "b", "c", "d", "e", "f", "g", "h", "i", "j", "k", "l", "m",
    "n", "o", "p", "q", "r", "s", "t", "u", "v", "w", "x", "y", "z">>
DigitChars == <<"0", "1", "2", "3", "4", "5", "6", "7", "8", "9">>

\* [a-zA-Z]
IsLetter(c) == c \in Range(UpperCase) \cup Range(LowerCase)
\* [a-zA-Z0-9_], the characters between which \b finds no boundary
IsWordChar(c) == IsLetter(c) \/ c \in Range(DigitChars) \/ c = "_"
\* \s
IsSpace(c) == c = " "

\* String.prototype.toUpperCase and toLowerCase
toUpperCase(s) ==
  [i \in 1..Len(s) |->
     IF s[i] \in Range(LowerCase)
     THEN UpperCase[CHOOSE k \in 1..26 : LowerCase[k] = s[i]] ELSE s[i]]
toLowerCase(s) ==
  [i \in 1..Len(s) |->
     IF s[i] \in Range(UpperCase)
     THEN LowerCase[CHOOSE k \in 1..26 : UpperCase[k] = s[i]] ELSE s[i]]

\* the number of word characters (word |-> TRUE) or of blanks from offset
\* position on, up to the first character of another kind (a greedy X* or X+
\* of a pattern)
RunLength(input, position, word) ==
  LET Test(c) == IF word THEN IsWordChar(c) ELSE IsSpace(c)
      stops == {k \in (position + 1)..Len(input) : ~Test(input[k])}
      stop == IF stops = {} THEN Len(input) + 1
              ELSE CHOOSE k \in stops : \A j \in stops : k <= j
  IN stop - (position + 1)

\* /^word\b/i at offset position; word ends in a word character
WordAt(input, position, word) ==
  LET n == Len(word)
  IN /\ position + n <= Len(input)
     /\ toUpperCase(SubSeq(input, position + 1, position + n)) = toUpperCase(word)
     /\ (position + n = Len(input) \/ ~IsWordChar(input[position + n + 1]))

(***************************************************************************)
(* Lexer of the TypeScript engine (lexer.ts)                               *)
(***************************************************************************)
Token(type, value, position, length) ==
  [type |-> type, value |-> value, position |-> position, length |-> length]

\* a token stream, or the error thrown while making it
Lexed(tokens) == [threw |-> FALSE, tokens |-> tokens, position |-> Null]
LexerError(position) == [threw |-> TRUE, tokens |-> <<>>, position |-> position]

\* TOKEN_PATTERNS, lines 25-31, in the order of the array
KeywordPatterns ==
  <<[word |-> <<"X", "N", "O", "R">>, type |-> "XNOR"],
    [word |-> <<"N", "A", "N", "D">>, type |-> "NAND"],
    [word |-> <<"N", "O", "R">>, type |-> "NOR"],
    [word |-> <<"X", "O", "R">>, type |-> "XOR"],
    [word |-> <<"A", "N", "D">>, type |-> "AND"],
    [word |-> <<"O", "R">>, type |-> "OR"],
    [word |-> <<"N", "O", "T">>, type |-> "NOT"]>>

\* TOKEN_PATTERNS, line 35
LiteralWords == <<<<"t", "r", "u", "e">>, <<"f", "a", "l", "s", "e">>>>

\* TOKEN_PATTERNS, lines 41-63, in the order of the array; the dot pattern
\* has its lookahead in SymbolAt
SymbolPatterns ==
  <<[chars |-> {"("}, type |-> "LPAREN"],
    [chars |-> {")"}, type |-> "RPAREN"],
    [chars |-> {"&", "U+2227"}, type |-> "AND"],
    [chars |-> {"."}, type |-> "AND"],
    [chars |-> {"*"}, type |-> "AND"],
    [chars |-> {"|", "U+2228"}, type |-> "OR"],
    [chars |-> {"+"}, type |-> "OR"],
    [chars |-> {"~", "!", "U+00AC"}, type |-> "NOT"],
    [chars |-> {"'"}, type |-> "NOT"],
    [chars |-> {"^", "U+2295"}, type |-> "XOR"],
    [chars |-> {"U+2191"}, type |-> "NAND"],
    [chars |-> {"U+2193"}, type |-> "NOR"],
    [chars |-> {"U+2299", "U+2194"}, type |-> "XNOR"]>>

\* does symbol pattern k match at offset position
SymbolAt(input, position, k) ==
  /\ input[position + 1] \in SymbolPatterns[k].chars
  /\ (SymbolPatterns[k].chars = {"."} =>
        ~(position + 2 <= Len(input) /\ input[position + 2] \in Range(DigitChars)))

\* nextToken at offset position < input.length: the first pattern that
\* matches; type "null" is white space, length 0 the thrown error
nextToken(input, position) ==
  LET c == input[position + 1]
      normalizeValue(type, value) ==
        IF type = "VARIABLE" THEN toUpperCase(value)
        ELSE IF type = "LITERAL"
        THEN (IF toLowerCase(value) \in {<<"t", "r", "u", "e">>, <<"1">>}
              THEN <<"1">> ELSE <<"0">>)
        ELSE value
      Match(type, length) ==
        [type |-> type, length |-> length,
         value |-> normalizeValue(type, SubSeq(input, position + 1, position + length))]
      keywords == SelectSeq(Indices(Len(KeywordPatterns)),
                    LAMBDA k : WordAt(input, position, KeywordPatterns[k].word))
      words == SelectSeq(Indices(Len(LiteralWords)),
                    LAMBDA k : WordAt(input, position, LiteralWords[k]))
      symbols == SelectSeq(Indices(Len(SymbolPatterns)), LAMBDA k : SymbolAt(input, position, k))
  IN IF IsSpace(c) THEN Match("null", RunLength(input, position, FALSE))
     ELSE IF Len(keywords) > 0
     THEN Match(KeywordPatterns[keywords[1]].type, Len(KeywordPatterns[keywords[1]].word))
     ELSE IF c \in {"0", "1"}
             /\ ~(position + 2 <= Len(input) /\ IsWordChar(input[position + 2]))
     THEN Match("LITERAL", 1)
     ELSE IF Len(words) > 0 THEN Match("LITERAL", Len(LiteralWords[words[1]]))
     ELSE IF IsLetter(c) THEN Match("VARIABLE", RunLength(input, position, TRUE))
     ELSE IF Len(symbols) > 0 THEN Match(SymbolPatterns[symbols[1]].type, 1)
     ELSE Match("null", 0)

\* the while loop of Lexer.tokenize from offset position on, then the EOF token
RECURSIVE TokenizeFrom(_, _, _)
TokenizeFrom(input, position, tokens) ==
  IF position >= Len(input)
  THEN Lexed(Append(tokens, Token("EOF", <<>>, position, 0)))
  ELSE LET m == nextToken(input, position)
       IN IF m.length = 0 THEN LexerError(position)
          ELSE TokenizeFrom(input, position + m.length,
                 IF m.type = "null" THEN tokens
                 ELSE Append(tokens, Token(m.type, m.value, position, m.length)))

tokenize(input) == TokenizeFrom(input, 0, <<>>)

(***************************************************************************)
(* Lexer of the client library (lexer.js) and its copy in the server       *)
(* library; server |-> TRUE selects the copy                               *)
(***************************************************************************)
Token_js(type, value, position) ==
  [type |-> type, value |-> value, position |-> position]

\* the keywords object of readIdentifier
keywords == {"AND", "OR", "NOT", "XOR", "NAND", "NOR", "XNOR"}

\* the key of keywords that upperValue spells, if any
KeywordOf(upperValue) ==
  LET ks == SelectSeq(Indices(Len(KeywordPatterns)),
                      LAMBDA k : KeywordPatterns[k].word = upperValue)
  IN IF Len(ks) > 0 THEN KeywordPatterns[ks[1]].type ELSE "null"

\* readIdentifier at offset position
readIdentifier(input, position) ==
  LET value == SubSeq(input, position + 1,
                      position + RunLength(input, position, TRUE))
      upperValue == toUpperCase(value)
  IN IF KeywordOf(upperValue) \in keywords
     THEN Token_js(KeywordOf(upperValue), upperValue, position)
     ELSE IF upperValue = <<"T", "R", "U", "E">> \/ value = <<"1">>
     THEN Token_js("CONSTANT", 1, position)
     ELSE IF upperValue = <<"F", "A", "L", "S", "E">> \/ value = <<"0">>
     THEN Token_js("CONSTANT", 0, position)
     ELSE Token_js("VARIABLE", value, position)

\* the while loop of tokenize from offset position on, then the EOF token
RECURSIVE TokenizeFrom_js(_, _, _, _)
TokenizeFrom_js(input, position, tokens, server) ==
  LET startPos == position + RunLength(input, position, FALSE)
  IN IF position >= Len(input) \/ startPos >= Len(input)
     THEN Lexed(Append(tokens, Token_js("EOF", <<>>, IF position >= Len(input)
                                                      THEN position ELSE startPos)))
     ELSE LET char == input[startPos + 1]
              \* the chain of single-character tests, in its order
              SingleChar(offset) ==
                IF char = "(" THEN Token_js("LPAREN", <<"(">>, offset)
                ELSE IF char = ")" THEN Token_js("RPAREN", <<")">>, offset)
                ELSE IF char = "&" THEN Token_js("AND", <<"&">>, offset)
                ELSE IF char = "|" THEN Token_js("OR", <<"|">>, offset)
                ELSE IF char = "~" \/ char = "!" THEN Token_js("NOT", <<"~">>, offset)
                ELSE IF char = "^" THEN Token_js("XOR", <<"^">>, offset)
                ELSE IF char = "+" THEN Token_js("OR", <<"+">>, offset)
                ELSE IF char = "." THEN Token_js("AND", <<".">>, offset)
                ELSE IF char = "*" THEN Token_js("AND", IF server THEN <<".">> ELSE <<"*">>, offset)
                ELSE IF char = "'" THEN Token_js("NOT", <<"'">>, offset)
                ELSE IF char = "U+2295" /\ ~server THEN Token_js("XOR", <<"U+2295">>, offset)
                ELSE IF char = "0" THEN Token_js("CONSTANT", 0, offset)
                ELSE IF char = "1" THEN Token_js("CONSTANT", 1, offset)
                ELSE Token_js("null", <<>>, offset)
              single == SingleChar(startPos)
          IN IF single.type # "null"
             THEN TokenizeFrom_js(input, startPos + 1, Append(tokens, single), server)
             ELSE IF IsLetter(char) \/ char = "_"
             THEN TokenizeFrom_js(input,
                                  startPos + RunLength(input, startPos, TRUE),
                                  Append(tokens, readIdentifier(input, startPos)), server)
             ELSE LexerError(startPos)

tokenize_js(input, server) == TokenizeFrom_js(input, 0, <<>>, server)

(***************************************************************************)
(* Sorting names: Array.prototype.sort() compares strings by code unit     *)
(***************************************************************************)
\* a < b for two strings: b continues the common prefix with a larger
\* character, or a is a proper prefix of b
StringLess(a, b) ==
  LET \* the code unit of a character of [0-9A-Z_a-z]
      CharCode(c) ==
        IF c \in Range(DigitChars) THEN 47 + (CHOOSE k \in 1..10 : DigitChars[k] = c)
        ELSE IF c \in Range(UpperCase) THEN 64 + (CHOOSE k \in 1..26 : UpperCase[k] = c)
        ELSE IF c = "_" THEN 95
        ELSE 96 + (CHOOSE k \in 1..26 : LowerCase[k] = c)
  IN \E i \in 1..Len(b) :
        /\ Len(a) >= i - 1
        /\ \A j \in 1..(i - 1) : a[j] = b[j]
        /\ (Len(a) = i - 1 \/ CharCode(a[i]) < CharCode(b[i]))

\* Array.from(set).sort()
SortNames(S) ==
  [i \in 1..Cardinality(S) |->
     CHOOSE x \in S : Cardinality({y \in S : StringLess(y, x)}) = i - 1]

(***************************************************************************)
(* Parser of the TypeScript engine (parser.ts).  current is the index of   *)
(* the next token (1-based), id the number of nodes made so far: the k-th  *)
(* call of nanoid(8) is id k                                               *)
(***************************************************************************)
\* the state of the Parser object with the node just parsed
Parsed(node, current, id, variables) ==
  [threw |-> FALSE, node |-> node, current |-> current, id |-> id,
   variables |-> variables, message |-> "", position |-> Null]
ParseError(message, position) ==
  [threw |-> TRUE, node |-> Null, current |-> Null, id |-> Null,
   variables |-> {}, message |-> message, position |-> position]

isAtEnd(tokens, current) == tokens[current].type = "EOF"
check(tokens, current, type) ==
  ~isAtEnd(tokens, current) /\ tokens[current].type = type

\* a mutant: every binary operator is matched wherever one is looked for
matchAnyOperator(tokens, current, types) ==
  \E type \in BinaryTypes : check(tokens, current, type)

\* the test of match(...types); the caller advances when it holds
match(tokens, current, types) ==
  \E type \in types : check(tokens, current, type)

\* left = createBinaryNode(type, left, right) with the state after right
createBinaryNode(type, left, right) ==
  Parsed(ASTBinaryOp(type, left.node, right.node, right.id + 1),
         right.current, right.id + 1, right.variables)

\* a mutant: the NOT of a NOT node is that node's operand
createUnaryNodeCancelling(operand, current) ==
  IF operand.node.type = "NOT"
  THEN Parsed(operand.node.kids[1], current, operand.id, operand.variables)
  ELSE Parsed(ASTUnaryOp(operand.node, operand.id + 1), current, operand.id + 1,
              operand.variables)

\* node = createUnaryNode(operand) with the state after operand
createUnaryNode(operand, current) ==
  Parsed(ASTUnaryOp(operand.node, operand.id + 1), current, operand.id + 1,
         operand.variables)

\* the state in which the token at.current has been consumed
Advanced(at) == [at EXCEPT !.current = @ + 1]

\* The methods of Parser.  at is the state of the parser when the method (or
\* the while loop of a method) is entered; in a loop at.node is left (node in
\* parseUnary).  The result is the state when it returns, with the node it
\* returns, or the error it throws.
RECURSIVE Parser(_, _, _)
Parser(method, tokens, at) ==
  CASE method = "parseExpression" ->
         LET left == Parser("parseTerm", tokens, at)
         IN IF left.threw THEN left ELSE Parser("parseExpression.while", tokens, left)
    [] method = "parseExpression.while" ->
         IF match(tokens, at.current, {"OR", "NOR"})
         THEN LET operator == tokens[at.current]
                  right == Parser("parseTerm", tokens, Advanced(at))
              IN IF right.threw THEN right
                 ELSE Parser("parseExpression.while", tokens,
                             createBinaryNode(operator.type, at, right))
         ELSE at
    [] method = "parseTerm" ->
         LET left == Parser("parseFactor", tokens, at)
         IN IF left.threw THEN left ELSE Parser("parseTerm.while", tokens, left)
    [] method = "parseTerm.while" ->
         IF match(tokens, at.current, {"XOR", "XNOR"})
         THEN LET operator == tokens[at.current]
                  right == Parser("parseFactor", tokens, Advanced(at))
              IN IF right.threw THEN right
                 ELSE Parser("parseTerm.while", tokens,
                             createBinaryNode(operator.type, at, right))
         ELSE at
    [] method = "parseFactor" ->
         LET first == Parser("parseUnary", tokens, at)
         IN IF first.threw THEN first
            ELSE LET left == Parser("parseFactor.while", tokens, first)
                 IN IF left.threw THEN left
                    ELSE Parser("parseFactor.implicit", tokens, left)
    [] method = "parseFactor.while" ->
         IF match(tokens, at.current, {"AND", "NAND"})
         THEN LET operator == tokens[at.current]
                  right == Parser("parseUnary", tokens, Advanced(at))
              IN IF right.threw THEN right
                 ELSE Parser("parseFactor.while", tokens,
                             createBinaryNode(operator.type, at, right))
         ELSE at
    [] method = "parseFactor.implicit" ->
         IF \E type \in {"VARIABLE", "LPAREN", "NOT", "LITERAL"} : check(tokens, at.current, type)
         THEN LET right == Parser("parseUnary", tokens, at)
              IN IF right.threw THEN right
                 ELSE Parser("parseFactor.implicit", tokens,
                             createBinaryNode("AND", at, right))
         ELSE at
    [] method = "parseUnary" ->
         IF check(tokens, at.current, "NOT")
         THEN LET operand == Parser("parseUnary", tokens, Advanced(at))
              IN IF operand.threw THEN operand
                 ELSE createUnaryNode(operand, operand.current)
         ELSE LET node == Parser("parsePrimary", tokens, at)
              IN IF node.threw THEN node ELSE Parser("parseUnary.while", tokens, node)
    [] method = "parseUnary.while" ->
         IF check(tokens, at.current, "NOT") /\ tokens[at.current].value = <<"'">>
         THEN Parser("parseUnary.while", tokens, createUnaryNode(at, at.current + 1))
         ELSE at
    [] method = "parsePrimary" ->
         LET token == tokens[at.current]
         IN IF check(tokens, at.current, "LITERAL")
            THEN Parsed(ASTLiteral(token.value = <<"1">>, at.id + 1),
                        at.current + 1, at.id + 1, at.variables)
            ELSE IF check(tokens, at.current, "VARIABLE")
            THEN Parsed(ASTVariable(token.value, at.id + 1),
                        at.current + 1, at.id + 1, at.variables \cup {token.value})
            ELSE IF check(tokens, at.current, "LPAREN")
            THEN LET expr == Parser("parseExpression", tokens, Advanced(at))
                 IN IF expr.threw THEN expr
                    ELSE IF check(tokens, expr.current, "RPAREN") THEN Advanced(expr)
                    ELSE ParseError("Missing closing parenthesis",
                                    tokens[expr.current].position)
            ELSE ParseError(IF token.type = "EOF" THEN "Unexpected end of expression"
                            ELSE "Expected variable or value", token.position)

\* what Parser.parse returns or throws
ParseResult(ast, variables) ==
  [threw |-> FALSE, ast |-> ast, variables |-> variables, message |-> ""]
ParseFailure(message) ==
  [threw |-> TRUE, ast |-> Null, variables |-> <<>>, message |-> message]

\* a mutant: what the parser has built is returned although tokens are left
parseWithoutEndTest(expression) ==
  IF \A i \in 1..Len(expression) : IsSpace(expression[i])
  THEN ParseFailure("Expression cannot be empty")
  ELSE LET lexed == tokenize(expression)
       IN IF lexed.threw THEN ParseFailure("Unexpected character")
          ELSE LET ast == Parser("parseExpression", lexed.tokens, Parsed(Null, 1, 0, {}))
               IN IF ast.threw THEN ParseFailure(ast.message)
                  ELSE ParseResult(ast.node, SortNames(ast.variables))

\* Parser.parse(expression)
parse(expression) ==
  IF \A i \in 1..Len(expression) : IsSpace(expression[i])
  THEN ParseFailure("Expression cannot be empty")
  ELSE LET lexed == tokenize(expression)
       IN IF lexed.threw THEN ParseFailure("Unexpected character")
          ELSE LET ast == Parser("parseExpression", lexed.tokens, Parsed(Null, 1, 0, {}))
               IN IF ast.threw THEN ParseFailure(ast.message)
                  ELSE IF ~isAtEnd(lexed.tokens, ast.current)
                  THEN ParseFailure("Unexpected token")
                  ELSE ParseResult(ast.node, SortNames(ast.variables))

(***************************************************************************)
(* Parser of the client library (parser.js); the Parser of the server      *)
(* library is the same code with shorter messages.  position is the index  *)
(* of the next token (1-based), id the value of ASTNode.idCounter          *)
(***************************************************************************)
\* left = new <Type>Node(left, right) with the state after right
NewBinaryNode(type, left, right) ==
  Parsed(BinaryNode(type, left.node, right.node, right.id + 1),
         right.current, right.id + 1, {})

\* node = new NotNode(operand) with the state after operand
NewNotNode(operand, position) ==
  Parsed(NotNode(operand.node, operand.id + 1), position, operand.id + 1, {})

\* The methods of the class Parser, as for the TypeScript one; at.current is
\* this.position
RECURSIVE Parser_js(_, _, _)
Parser_js(method, tokens, at) ==
  CASE method = "orExpression" ->
         LET left == Parser_js("xorExpression", tokens, at)
         IN IF left.threw THEN left ELSE Parser_js("orExpression.while", tokens, left)
    [] method = "orExpression.while" ->
         IF match(tokens, at.current, {"OR", "NOR"})
         THEN LET operator == tokens[at.current]
                  right == Parser_js("xorExpression", tokens, Advanced(at))
              IN IF right.threw THEN right
                 ELSE Parser_js("orExpression.while", tokens,
                                NewBinaryNode(operator.type, at, right))
         ELSE at
    [] method = "xorExpression" ->
         LET left == Parser_js("andExpression", tokens, at)
         IN IF left.threw THEN left ELSE Parser_js("xorExpression.while", tokens, left)
    [] method = "xorExpression.while" ->
         IF match(tokens, at.current, {"XOR", "XNOR"})
         THEN LET operator == tokens[at.current]
                  right == Parser_js("andExpression", tokens, Advanced(at))
              IN IF right.threw THEN right
                 ELSE Parser_js("xorExpression.while", tokens,
                                NewBinaryNode(operator.type, at, right))
         ELSE at
    [] method = "andExpression" ->
         LET first == Parser_js("unary", tokens, at)
         IN IF first.threw THEN first
            ELSE LET left == Parser_js("andExpression.while", tokens, first)
                 IN IF left.threw THEN left
                    ELSE Parser_js("andExpression.implicit", tokens, left)
    [] method = "andExpression.while" ->
         IF match(tokens, at.current, {"AND", "NAND"})
         THEN LET operator == tokens[at.current]
                  right == Parser_js("unary", tokens, Advanced(at))
              IN IF right.threw THEN right
                 ELSE Parser_js("andExpression.while", tokens,
                                NewBinaryNode(operator.type, at, right))
         ELSE at
    [] method = "andExpression.implicit" ->
         IF \E type \in {"VARIABLE", "LPAREN", "CONSTANT"} : check(tokens, at.current, type)
         THEN LET right == Parser_js("unary", tokens, at)
              IN IF right.threw THEN right
                 ELSE Parser_js("andExpression.implicit", tokens,
                                NewBinaryNode("AND", at, right))
         ELSE at
    [] method = "unary" ->
         IF check(tokens, at.current, "NOT")
         THEN LET operand == Parser_js("unary", tokens, Advanced(at))
              IN IF operand.threw THEN operand
                 ELSE NewNotNode(operand, operand.current)
         ELSE Parser_js("postfix", tokens, at)
    [] method = "postfix" ->
         LET node == Parser_js("primary", tokens, at)
         IN IF node.threw THEN node ELSE Parser_js("postfix.while", tokens, node)
    [] method = "postfix.while" ->
         \* an apostrophe negates; any other NOT token is put back
         IF check(tokens, at.current, "NOT") /\ tokens[at.current].value = <<"'">>
         THEN Parser_js("postfix.while", tokens, NewNotNode(at, at.current + 1))
         ELSE at
    [] method = "primary" ->
         IF check(tokens, at.current, "CONSTANT")
         THEN Parsed(ConstantNode(tokens[at.current].value, at.id + 1),
                     at.current + 1, at.id + 1, {})
         ELSE IF check(tokens, at.current, "VARIABLE")
         THEN Parsed(VariableNode(tokens[at.current].value, at.id + 1),
                     at.current + 1, at.id + 1, {})
         ELSE IF check(tokens, at.current, "LPAREN")
         THEN LET expr == Parser_js("orExpression", tokens, Advanced(at))
              IN IF expr.threw THEN expr
                 ELSE IF check(tokens, expr.current, "RPAREN") THEN Advanced(expr)
                 ELSE ParseError("Expected ')' after expression",
                                 tokens[expr.current].position)
         ELSE ParseError("Expected variable, constant, or '('",
                         tokens[at.current].position)

\* new Parser(tokens).parse(): resetIds, expression, the end-of-input test;
\* variables is Array.from(ast.getVariables()).sort(), as every caller makes it
parse_js(tokens) ==
  LET ast == Parser_js("orExpression", tokens, Parsed(Null, 1, 0, {}))
  IN IF ast.threw THEN ParseFailure(ast.message)
     ELSE IF ~isAtEnd(tokens, ast.current) THEN ParseFailure("Unexpected token")
     ELSE ParseResult(ast.node, SortNames(VariablesOf(ast.node)))

(***************************************************************************)
(* Rendering a tree as text                                                *)
(***************************************************************************)
\* a mutant: a binary node is written without its parentheses
RECURSIVE astToStringBare(_)
astToStringBare(node) ==
  IF node.type = "VARIABLE" THEN node.name
  ELSE IF node.type = "LITERAL" THEN (IF node.value THEN <<"1">> ELSE <<"0">>)
  ELSE IF node.type = "NOT"
  THEN IF node.kids[1].type \notin {"VARIABLE", "LITERAL"}
       THEN <<"~", "(">> \o astToStringBare(node.kids[1]) \o <<")">>
       ELSE <<"~">> \o astToStringBare(node.kids[1])
  ELSE astToStringBare(node.kids[1])
       \o (CASE node.type = "AND" -> <<" ", "U+2227", " ">>
             [] node.type = "OR" -> <<" ", "U+2228", " ">>
             [] node.type = "XOR" -> <<" ", "U+2295", " ">>
             [] node.type = "NAND" -> <<" ", "U+2191", " ">>
             [] node.type = "NOR" -> <<" ", "U+2193", " ">>
             [] node.type = "XNOR" -> <<" ", "U+2299", " ">>)
       \o astToStringBare(node.kids[2])

\* astToString(node) of parser.ts, with the symbols of getOperatorSymbol
RECURSIVE astToString(_)
astToString(node) ==
  IF node.type = "VARIABLE" THEN node.name
  ELSE IF node.type = "LITERAL" THEN (IF node.value THEN <<"1">> ELSE <<"0">>)
  ELSE IF node.type = "NOT"
  THEN IF node.kids[1].type \notin {"VARIABLE", "LITERAL"}
       THEN <<"~", "(">> \o astToString(node.kids[1]) \o <<")">>
       ELSE <<"~">> \o astToString(node.kids[1])
  ELSE IF node.type \in BinaryTypes
  THEN <<"(">> \o astToString(node.kids[1]) \o <<" ">>
       \o (CASE node.type = "AND" -> <<"U+2227">>
             [] node.type = "OR" -> <<"U+2228">>
             [] node.type = "XOR" -> <<"U+2295">>
             [] node.type = "NAND" -> <<"U+2191">>
             [] node.type = "NOR" -> <<"U+2193">>
             [] node.type = "XNOR" -> <<"U+2299">>)
       \o <<" ">> \o astToString(node.kids[2]) \o <<")">>
  ELSE <<"?">>

\* node.toString() of the classes of ast.js; the NotNode of the server
\* library parenthesises every operand, a binary node writes its keyword
RECURSIVE toString(_, _)
toString(node, server) ==
  IF node.type = "VARIABLE" THEN node.name
  ELSE IF node.type = "CONSTANT" THEN toString2(node.value)
  ELSE IF node.type = "NOT"
  THEN IF ~server /\ node.kids[1].type \in {"VARIABLE", "CONSTANT"}
       THEN <<"~">> \o toString(node.kids[1], server)
       ELSE <<"~", "(">> \o toString(node.kids[1], server) \o <<")">>
  ELSE <<"(">> \o toString(node.kids[1], server) \o <<" ">>
       \o (CHOOSE w \in {KeywordPatterns[k].word : k \in 1..Len(KeywordPatterns)} :
             \E k \in 1..Len(KeywordPatterns) :
               KeywordPatterns[k].word = w /\ KeywordPatterns[k].type = node.type)
       \o <<" ">> \o toString(node.kids[2], server) \o <<")">>

\* node.clone() of the classes of ast.js with ASTNode.idCounter = idCounter:
\* the operands are cloned first, left before right, then the constructor of
\* the new node takes the next id; the id of the result is the counter after
RECURSIVE clone(_, _)
clone(node, idCounter) ==
  IF node.type = "VARIABLE" THEN VariableNode(node.name, idCounter + 1)
  ELSE IF node.type = "CONSTANT" THEN ConstantNode(node.value, idCounter + 1)
  ELSE IF node.type = "NOT"
  THEN LET operand == clone(node.kids[1], idCounter)
       IN NotNode(operand, operand.id + 1)
  ELSE LET left == clone(node.kids[1], idCounter)
           right == clone(node.kids[2], left.id)
       IN BinaryNode(node.type, left, right, right.id + 1)

(***************************************************************************)
(* Calls of the evaluators and of the truth-table generators               *)
(***************************************************************************)
\* the trees of n nodes (the leaves are A, B and the literal 1, as the parser
\* of either family makes them); ids are handed out in the order of construction
\* (operands before their operator), starting at base
RECURSIVE TreesOf(_, _, _)
TreesOf(n, base, js) ==
  IF n = 1
  THEN (IF js THEN {VariableNode(<<"A">>, base), VariableNode(<<"B">>, base),
                    ConstantNode(1, base)}
        ELSE {ASTVariable(<<"A">>, base), ASTVariable(<<"B">>, base),
              ASTLiteral(TRUE, base)})
  ELSE {IF js THEN NotNode(t, base + n - 1) ELSE ASTUnaryOp(t, base + n - 1) :
          t \in TreesOf(n - 1, base, js)}
       \cup UNION {
            {IF js THEN BinaryNode(op, pr[1], pr[2], base + n - 1)
             ELSE ASTBinaryOp(op, pr[1], pr[2], base + n - 1) :
               op \in BinaryTypes,
               pr \in TreesOf(k, base, js) \X TreesOf(n - 1 - k, base + k, js)} :
            k \in 1..(n - 2)}

Call(job, ast, variables, bindings) ==
  [pc |-> "called", job |-> job, ast |-> ast, variables |-> variables,
   bindings |-> bindings, out |-> [threw |-> FALSE]]

\* a generator is handed a sorted list of distinct names A, B, C, ...; an
\* evaluator a binding object over the names A and B, every name bound or not
TTInit ==
  /\ qm = Idle /\ ps = Idle /\ px = Idle
  /\ \E job \in {"evaluate", "evaluateWithTrace", "evaluate.client", "evaluate.server",
                 "generateTruthTable", "generateTruthTable.client",
                 "generateTruthTable.server"} :
     LET js == job \in {"evaluate.client", "evaluate.server",
                        "generateTruthTable.client", "generateTruthTable.server"}
         table == job \in {"generateTruthTable", "generateTruthTable.client",
                           "generateTruthTable.server"}
     IN \E ast \in UNION {TreesOf(n, 1, js) : n \in 1..MaxSize} :
          \/ /\ table
             /\ \E variables \in
                  {SubSeq(AllNames, 1, n) :
                     n \in {k \in 0..MaxNames :
                              k <= ShortList \/ Size(ast) <= SmallSize}} :
                  tt = Call(job, ast, variables, <<>>)
          \/ /\ ~table
             /\ \E bindings \in
                  UNION {[D -> IF js THEN {0, 1} ELSE BOOLEAN] :
                           D \in SUBSET {<<"A">>, <<"B">>}} :
                  tt = Call(job, ast, <<>>, bindings)
          \/ /\ job = "evaluate" /\ Size(ast) = 1
             /\ \E n \in 0..ShortList :
                \E bindings \in [Range(SubSeq(AllNames, 1, n)) -> BOOLEAN] :
                  tt = Call("getMaxtermNumber", ast, SubSeq(AllNames, 1, n), bindings)

Return(out) == tt' = [tt EXCEPT !.pc = "returned", !.out = out]

TTEvaluate ==
  /\ tt.pc = "called" /\ tt.job = "evaluate"
  /\ Return(evaluate(tt.ast, tt.bindings))
  /\ UNCHANGED <<qm, ps, px>>

TTEvaluateWithTrace ==
  /\ tt.pc = "called" /\ tt.job = "evaluateWithTrace"
  /\ Return(evaluateWithTrace(tt.ast, tt.bindings))
  /\ UNCHANGED <<qm, ps, px>>

\* getMaxtermNumber(binding, variables) with every variable bound
TTGetMaxtermNumber ==
  /\ tt.pc = "called" /\ tt.job = "getMaxtermNumber"
  /\ Return(Returned(getMaxtermNumber(tt.bindings, tt.variables)))
  /\ UNCHANGED <<qm, ps, px>>

TTNodeEvaluate ==
  /\ tt.pc = "called" /\ tt.job \in {"evaluate.client", "evaluate.server"}
  /\ Return(nodeEvaluate(tt.ast, tt.bindings, tt.job = "evaluate.server"))
  /\ UNCHANGED <<qm, ps, px>>

TTGenerate ==
  /\ tt.pc = "called" /\ tt.job = "generateTruthTable"
  /\ Return(generateTruthTable(tt.ast, tt.variables))
  /\ UNCHANGED <<qm, ps, px>>

TTGenerateJs ==
  /\ tt.pc = "called"
  /\ tt.job \in {"generateTruthTable.client", "generateTruthTable.server"}
  /\ Return(generateTruthTable_js(tt.ast, tt.variables,
                                  tt.job = "generateTruthTable.server"))
  /\ UNCHANGED <<qm, ps, px>>

TTNext ==
  \/ TTEvaluate \/ TTEvaluateWithTrace \/ TTNodeEvaluate
  \/ TTGenerate \/ TTGenerateJs \/ TTGetMaxtermNumber

SpecTT == TTInit /\ [][TTNext]_vars

(***************************************************************************)
(* Parsing an input string with each of the three implementations          *)
(***************************************************************************)
\* The inputs, each with the parts it was made of.  free: up to MaxPieces
\* pieces in a row.  flat, left, right: x1 op1 x2 op2 x3, bare or with the
\* left or the right pair in parentheses, the operators in spellings that all
\* three lexers know.  adjacent: an operand, a blank, and a unary expression.
ParseInputs ==
  LET Pieces ==
        {<<"A">>, <<"B">>, <<"a">>, <<"1">>, <<" ">>, <<"(">>, <<")">>,
         <<"~">>, <<"'">>, <<"N", "O", "T", " ">>,
         <<"&">>, <<"|">>, <<"^">>, <<" ", "a", "n", "d", " ">>, <<"U+2295">>}
      OperatorSpellings ==
        {[text |-> <<"&">>, type |-> "AND"],
         [text |-> <<" ", "A", "N", "D", " ">>, type |-> "AND"],
         [text |-> <<" ", "N", "A", "N", "D", " ">>, type |-> "NAND"],
         [text |-> <<"^">>, type |-> "XOR"],
         [text |-> <<" ", "X", "N", "O", "R", " ">>, type |-> "XNOR"],
         [text |-> <<"|">>, type |-> "OR"],
         [text |-> <<"+">>, type |-> "OR"],
         [text |-> <<" ", "N", "O", "R", " ">>, type |-> "NOR"]}
      Operands == {<<"A">>, <<"B">>, <<"C">>}
      UnaryStarts ==
        {<<"B">>, <<"1">>, <<"~", "B">>, <<"N", "O", "T", " ", "B">>,
         <<"(", "B", ")">>, <<"(", "B", "|", "C", ")">>, <<"B", "'">>}
      LeftOperands == {<<"A">>, <<"A", "'">>, <<"(", "A", ")">>, <<"~", "A">>, <<"0">>}
      NotSpellings == {<<"~">>, <<"!">>, <<"N", "O", "T", " ">>}
      Primaries == {<<"A">>, <<"1">>, <<"(", "A", ")">>, <<"(", "A", "&", "C", ")">>}
      Aliases ==
        {[text |-> <<"&">>, type |-> "AND"], [text |-> <<".">>, type |-> "AND"],
         [text |-> <<"*">>, type |-> "AND"], [text |-> <<"|">>, type |-> "OR"],
         [text |-> <<"+">>, type |-> "OR"], [text |-> <<"~">>, type |-> "NOT"],
         [text |-> <<"!">>, type |-> "NOT"], [text |-> <<"'">>, type |-> "NOT"],
         [text |-> <<"^">>, type |-> "XOR"]}
      Text(family, parts) ==
        IF family = "left"
        THEN <<"(">> \o parts[1] \o parts[2] \o parts[3] \o <<")">>
             \o parts[4] \o parts[5]
        ELSE IF family = "right"
        THEN parts[1] \o parts[2] \o <<"(">> \o parts[3] \o parts[4]
             \o parts[5] \o <<")">>
        ELSE Concat(parts)
      Input(family, parts, ops) ==
        [family |-> family, parts |-> parts, ops |-> ops, input |-> Text(family, parts)]
  IN {Input("free", parts, <<>>) :
        parts \in UNION {[1..n -> Pieces] : n \in 0..MaxPieces}}
     \cup {Input(grouping, <<x[1], op[1].text, x[2], op[2].text, x[3]>>,
                 <<op[1].type, op[2].type>>) :
             grouping \in {"flat", "left", "right"},
             x \in [1..3 -> Operands], op \in [1..2 -> OperatorSpellings]}
     \cup {Input("adjacent", <<l, <<" ">>, r>>, <<>>) :
             l \in LeftOperands, r \in UnaryStarts}
     \cup {Input("unary", <<context, Concat(nots), primary, [i \in 1..m |-> "'"]>>,
                 [i \in 1..Len(nots) |-> "NOT"] \o [i \in 1..m |-> "'"]) :
             context \in {<<>>, <<"B", "|">>},
             nots \in UNION {[1..k -> NotSpellings] : k \in 0..MaxNots},
             primary \in Primaries, m \in 0..MaxNots}
     \cup {Input("alias", <<<<"A">>, alias.text, follower>>, <<alias.type>>) :
             alias \in Aliases,
             follower \in {<<>>, <<" ">>, <<"B">>, <<"1">>, <<"0">>, <<"(">>, <<")">>,
                           <<"&">>, <<".">>, <<"'">>}}
     \cup {Input("mixed", <<<<"A">>, s[1].text, u2, s[2].text, u3>>,
                 <<s[1].type, s[2].type>>) :
             u2 \in {<<"B">>, <<"(", "B", ")">>}, u3 \in {<<"C">>, <<"(", "C", ")">>},
             s \in [1..2 -> {[text |-> <<" ">>, type |-> "AND"]}
                             \cup {op \in OperatorSpellings : op.type \in {"AND", "NAND"}}]}

\* tokens, tree and sorted variables as the implementation's entry point makes
\* them: Parser.parse(expression) of parser.ts; new Lexer(expression).tokenize()
\* and new Parser(tokens).parse() of processExpression and validateExpression
ParseWith(impl, input) ==
  IF impl = "ts" THEN parse(input)
  ELSE LET lexed == tokenize_js(input, impl = "server")
       IN IF lexed.threw THEN ParseFailure("Unexpected character")
          ELSE parse_js(lexed.tokens)

PSInit ==
  /\ qm = Idle /\ tt = Idle /\ px = Idle
  /\ \E impl \in {"ts", "client", "server"} :
     \E in \in ParseInputs :
       ps = [pc |-> "input", impl |-> impl, family |-> in.family, parts |-> in.parts,
             ops |-> in.ops, input |-> in.input, lexed |-> Lexed(<<>>), result |-> [threw |-> FALSE],
             text |-> <<>>, again |-> [threw |-> FALSE], held |-> Null, copy |-> Null]

\* tokenize(expression) of lexer.ts
TSTokenize ==
  /\ ps.pc = "input" /\ ps.impl = "ts"
  /\ ps' = [ps EXCEPT !.pc = "tokens", !.lexed = tokenize(ps.input)]
  /\ UNCHANGED <<qm, tt, px>>

\* parseExpression(expression) of parser.ts: Parser.parse, its errors caught
TSParse ==
  /\ ps.pc = "tokens" /\ ps.impl = "ts"
  /\ ps' = [ps EXCEPT !.pc = "parsed", !.result = parse(ps.input)]
  /\ UNCHANGED <<qm, tt, px>>

\* new Lexer(expression).tokenize() of lexer.js and of the server library
JsTokenize ==
  /\ ps.pc = "input" /\ ps.impl \in {"client", "server"}
  /\ ps' = [ps EXCEPT !.pc = "tokens",
                      !.lexed = tokenize_js(ps.input, ps.impl = "server")]
  /\ UNCHANGED <<qm, tt, px>>

\* new Parser(tokens).parse() of parser.js and of the server library; a
\* LexerError never gets here
JsParse ==
  /\ ps.pc = "tokens" /\ ps.impl \in {"client", "server"} /\ ~ps.lexed.threw
  /\ ps' = [ps EXCEPT !.pc = "parsed", !.result = parse_js(ps.lexed.tokens)]
  /\ UNCHANGED <<qm, tt, px>>

\* the tree of a successful parse written as text (astToString(ast) or
\* ast.toString()) and that text parsed by the same implementation
RenderAndParse ==
  /\ ps.pc = "parsed" /\ ~ps.result.threw
  /\ LET text == IF ps.impl = "ts" THEN astToString(ps.result.ast)
                 ELSE toString(ps.result.ast, ps.impl = "server")
     IN ps' = [ps EXCEPT !.pc = "reparsed", !.text = text,
                         !.again = ParseWith(ps.impl, text)]
  /\ UNCHANGED <<qm, tt, px>>

\* the caller keeps the tree of a successful parse and parses another
\* expression with the client library: parse() starts with ASTNode.resetIds()
ClientParseNext ==
  /\ ps.pc = "parsed" /\ ps.impl = "client" /\ ~ps.result.threw
  /\ \E next \in {<<"A">>, <<"~", "B">>, <<"A", "|", "B">>} :
       ps' = [ps EXCEPT !.pc = "next", !.held = ps.result.ast,
                        !.result = ParseWith("client", next)]
  /\ UNCHANGED <<qm, tt, px>>

\* clone() of the tree of the last parse, or of the tree kept from the one
\* before; the node built last by a successful parse is its root, so the
\* root's id is ASTNode.idCounter
Clone ==
  /\ ps.pc \in {"parsed", "next"} /\ ps.impl = "client" /\ ~ps.result.threw
  /\ LET source == IF ps.pc = "parsed" THEN ps.result.ast ELSE ps.held
     IN ps' = [ps EXCEPT !.pc = "cloned", !.held = source,
                         !.copy = clone(source, ps.result.ast.id)]
  /\ UNCHANGED <<qm, tt, px>>

PSNext ==
  \/ TSTokenize \/ TSParse \/ JsTokenize \/ JsParse
  \/ RenderAndParse \/ ClientParseNext \/ Clone

SpecParse == PSInit /\ [][PSNext]_vars

(***************************************************************************)
(* processExpression of the client and server libraries, the POST          *)
(* /simplify route of the server, and generateTruthTable of the engine on  *)
(* what its parser returns                                                 *)
(***************************************************************************)
\* quineMcCluskey of server/src/logic/index.js (406-484): the client's
\* algorithm without the removal of duplicate prime implicants, the selection
\* written in line, its loop without the test of the remaining list
quineMcCluskey_server(minterms, numVars, variables) ==
  IF Len(minterms) = 0 THEN QMDegenerate(<<"0">>)
  ELSE IF Len(minterms) = Pow2(numVars) THEN QMDegenerate(<<"1">>)
  ELSE LET primeImplicants == CombineLoop(SeedImplicants(minterms, numVars), <<>>)
       IN QMResult(primeImplicants,
                   GreedyLoop(primeImplicants, numVars,
                              GreedyEntry(primeImplicants, minterms, numVars),
                              TRUE).essential,
                   variables)

\* the same call quineMcCluskey(minterms, numVars, variables) made to the
\* client's function and to the server's copy of it: every list of minterms
\* up to MaxMinterm of up to MaxVars variables
CopiesInit ==
  /\ tt = Idle /\ ps = Idle /\ px = Idle
  /\ \E numVars \in 0..MaxVars :
       \E S \in SUBSET {m \in 0..(Pow2(numVars) - 1) : m <= MaxMinterm} :
       qm = [pc |-> "call", minterms |-> SortAsc(S), numVars |-> numVars,
             variables |-> SubSeq(AllNames, 1, numVars),
             client |-> QMDegenerate(<<>>), server |-> QMDegenerate(<<>>)]

CallCopies ==
  /\ qm.pc = "call"
  /\ qm' = [qm EXCEPT !.pc = "returned",
                      !.client = quineMcCluskey(qm.minterms, qm.numVars, qm.variables),
                      !.server = quineMcCluskey_server(qm.minterms, qm.numVars,
                                                       qm.variables)]
  /\ UNCHANGED <<tt, ps, px>>

SpecCopies == CopiesInit /\ [][CallCopies]_vars

\* truthTable.rows.filter(row => row.output === 1).map(row => row.index)
getMinterms_js(truthTable) ==
  LET rows == truthTable.rows
      keep == SelectSeq(Indices(Len(rows)), LAMBDA r : rows[r].output = 1)
  IN [j \in 1..Len(keep) |-> rows[keep[j]].index]

\* the value null of the field simplification
NoSimplification ==
  [computed |-> FALSE, numVars |-> Null, minterms |-> <<>>, simplified |-> <<>>]

\* simplifyExpression(truthTable); numVars is the second argument with which
\* it calls quineMcCluskey
simplifyExpression(truthTable, server) ==
  LET variables == truthTable.variables
      minterms == getMinterms_js(truthTable) \o <<>>
      qmResult == IF server
                  THEN quineMcCluskey_server(minterms, Len(variables), variables)
                  ELSE quineMcCluskey(minterms, Len(variables), variables)
  IN [computed |-> TRUE, numVars |-> Len(variables), minterms |-> minterms,
      simplified |-> qmResult.expression]

\* a mutant: the cap is 7
SimplificationCapSeven(variables, truthTable, server) ==
  IF Len(variables) <= 7 THEN simplifyExpression(truthTable, server)
  ELSE NoSimplification

\* variables.length <= 6 ? simplifyExpression(truthTable) : null
Simplification(variables, truthTable, server) ==
  IF Len(variables) <= 6 THEN simplifyExpression(truthTable, server)
  ELSE NoSimplification

\* an answer of the server; status 0 stands for no answer yet
Response(status, error) == [status |-> status, error |-> error]

\* errorHandler(err, req, res, next), on err.name
errorHandler(name) ==
  IF name \in {"LexerError", "ParserError"} THEN Response(400, "Expression Error")
  ELSE Response(500, name)

\* x1 op x2 op ... op xk over the first k names, the first operand behind
\* prefix, followed by tail
Chain(k, op, prefix, tail) ==
  prefix \o Concat([j \in 1..k |-> IF j = 1 THEN AllNames[j] ELSE op \o AllNames[j]])
         \o tail

\* the '2:1 Multiplexer' of the examples route
Multiplexer ==
  <<"(", "A", " ", "A", "N", "D", " ", "N", "O", "T", " ", "S", ")", " ", "O", "R",
    " ", "(", "B", " ", "A", "N", "D", " ", "S", ")">>

\* expressions with a known number of distinct variables: chains of up to
\* MaxChain names, with or without a second occurrence of the first name
\* (operators whose tables have many minterms up to DenseChain names only),
\* the two literals, and texts that no parser accepts
ProcInputs ==
  {[expression |-> Chain(k, op, prefix, IF again THEN op \o AllNames[1] ELSE <<>>),
    valid |-> TRUE, distinct |-> k] :
     k \in 1..MaxChain, op \in {<<"&">>, <<"^">>}, prefix \in {<<>>, <<"~">>},
     again \in BOOLEAN}
  \cup {[expression |-> Chain(k, op, <<>>, IF again THEN op \o AllNames[1] ELSE <<>>),
         valid |-> TRUE, distinct |-> k] :
          k \in 2..DenseChain, op \in {<<"|">>, <<" ", "N", "A", "N", "D", " ">>}, again \in BOOLEAN}
  \cup {[expression |-> e, valid |-> TRUE, distinct |-> 0] : e \in {<<"1">>, <<"0">>}}
  \cup {[expression |-> Multiplexer, valid |-> TRUE, distinct |-> 3]}
  \cup {[expression |-> e, valid |-> FALSE, distinct |-> 0] :
          e \in {<<>>, <<"A", "&">>, <<"A", "#", "B">>, <<")">>}}

\* a call of processExpression (jobs client and server), a request to POST
\* /simplify or to POST /validate, or the engine's parser followed by its
\* generateTruthTable; error is the name of the error the call has thrown.
\* body is the type of req.body.expression: a request may carry a number or
\* nothing (undefined) where the string is expected.
PXInit ==
  /\ qm = Idle /\ tt = Idle /\ ps = Idle
  /\ \E job \in {"client", "server", "simplify", "validate", "engine"},
        in \in ProcInputs, body \in {"string", "number", "undefined"} :
       /\ body # "string" => job \in {"simplify", "validate"} /\ in.expression = <<>>
       /\ px = [pc |-> "request", job |-> job, body |-> body,
             expression |-> in.expression,
             valid |-> in.valid, distinct |-> in.distinct,
             lexed |-> Lexed(<<>>), parsed |-> [threw |-> FALSE], truthTable |-> TableOf(<<>>, <<>>),
             simplification |-> NoSimplification, error |-> "",
             response |-> Response(0, "")]

Throw(name) == px' = [px EXCEPT !.pc = "returned", !.error = name]

\* router.post('/simplify'): the test of req.body.expression
PostSimplify ==
  /\ px.pc = "request" /\ px.job = "simplify"
  /\ IF px.body # "string" \/ px.expression = <<>>
     THEN px' = [px EXCEPT !.pc = "responded",
                           !.response = Response(400, "Invalid request")]
     ELSE px' = [px EXCEPT !.pc = "called"]
  /\ UNCHANGED <<qm, tt, ps>>

\* processExpression: new Lexer(expression).tokenize()
ProcessTokenize ==
  /\ \/ px.pc = "request" /\ px.job \in {"client", "server"}
     \/ px.pc = "called"
  /\ LET lexed == tokenize_js(px.expression, px.job # "client")
     IN IF lexed.threw THEN Throw("LexerError")
        ELSE px' = [px EXCEPT !.pc = "tokens", !.lexed = lexed]
  /\ UNCHANGED <<qm, tt, ps>>

\* processExpression: new Parser(tokens).parse() and the sorted variables
ProcessParse ==
  /\ px.pc = "tokens"
  /\ LET parsed == parse_js(px.lexed.tokens)
     IN IF parsed.threw THEN Throw("ParserError")
        ELSE px' = [px EXCEPT !.pc = "ast", !.parsed = parsed]
  /\ UNCHANGED <<qm, tt, ps>>

\* processExpression: generateTruthTable(ast, variables).  The circuit, layout
\* and K-map steps that follow in the client build further fields from ast
\* and truthTable and change neither; CircuitGraph.fromAST has a case for
\* every node type the parser makes.
ProcessTruthTable ==
  /\ px.pc = "ast" /\ px.job # "engine"
  /\ px' = [px EXCEPT !.pc = "table",
                      !.truthTable =
                         generateTruthTable_js(px.parsed.ast, px.parsed.variables,
                                               px.job # "client")]
  /\ UNCHANGED <<qm, tt, ps>>

\* processExpression: the simplification, and the return
ProcessSimplify ==
  /\ px.pc = "table" /\ px.job # "engine"
  /\ px' = [px EXCEPT !.pc = "returned",
                      !.simplification =
                         Simplification(px.parsed.variables, px.truthTable,
                                        px.job # "client")]
  /\ UNCHANGED <<qm, tt, ps>>

\* router.post('/simplify') after processExpression, with errorHandler for
\* what it passes to next
PostSimplifyRespond ==
  /\ px.pc = "returned" /\ px.job = "simplify"
  /\ px' = [px EXCEPT !.pc = "responded",
                      !.response =
                         IF px.error # "" THEN errorHandler(px.error)
                         ELSE IF ~px.simplification.computed
                         THEN Response(400, "Simplification not available")
                         ELSE Response(200, "")]
  /\ UNCHANGED <<qm, tt, ps>>

\* the engine: Parser.parse(expression)
EngineParse ==
  /\ px.pc = "request" /\ px.job = "engine"
  /\ LET parsed == parse(px.expression)
     IN IF parsed.threw THEN Throw("ParseError")
        ELSE px' = [px EXCEPT !.pc = "ast", !.parsed = parsed]
  /\ UNCHANGED <<qm, tt, ps>>

\* the engine: generateTruthTable(ast, variables)
EngineTruthTable ==
  /\ px.pc = "ast" /\ px.job = "engine"
  /\ px' = [px EXCEPT !.pc = "returned",
                      !.truthTable = generateTruthTable(px.parsed.ast, px.parsed.variables)]
  /\ UNCHANGED <<qm, tt, ps>>

\* router.post('/validate') with validateExpression of the server library,
\* which catches what the lexer and the parser throw; parsed is the object
\* it answers with (valid is ~threw, error is message)
PostValidate ==
  /\ px.pc = "request" /\ px.job = "validate"
  /\ IF px.body # "string" \/ px.expression = <<>>
     THEN px' = [px EXCEPT !.pc = "responded",
                           !.response = Response(400, "Invalid request")]
     ELSE px' = [px EXCEPT !.pc = "responded",
                           !.parsed = ParseWith("server", px.expression),
                           !.response = Response(200, "")]
  /\ UNCHANGED <<qm, tt, ps>>

PXNext ==
  \/ PostValidate \/ PostSimplify \/ ProcessTokenize \/ ProcessParse \/ ProcessTruthTable
  \/ ProcessSimplify \/ PostSimplifyRespond \/ EngineParse \/ EngineTruthTable

SpecProc == PXInit /\ [][PXNext]_vars

(***************************************************************************)
(* LogicProvider of LogicContext.jsx: the state of the hooks and the        *)
(* callback process.  A state that is null or an object is written as the  *)
(* empty sequence or the sequence of the one object.                       *)
(***************************************************************************)
\* the useState calls of lines 26-33
ProviderInit ==
  /\ qm = Idle /\ tt = Idle /\ ps = Idle
  /\ px = [pc |-> "mounted", calls |-> 0, expr |-> <<>>, isProcessing |-> FALSE,
           error |-> <<>>, result |-> <<>>, inputValues |-> <<>>, returned |-> FALSE]

\* process(expr), lines 43-82, from its first line to its return: expr is a
\* conjunction of up to MaxChain names, a literal, or a text the parser or the
\* lexer rejects.  processExpression repeats the lexer and the parser of
\* validateExpression on the same text and then builds the truth table and
\* the simplification.
process ==
  /\ px.pc \in {"mounted", "completed"}
  /\ px.calls < MaxCalls
  /\ \E expr \in {Chain(k, <<"&">>, <<>>, <<>>) : k \in 1..MaxChain}
                 \cup {<<"0">>, <<>>, <<"A", "&">>, <<"A", "#", "B">>} :
       LET call == [px EXCEPT !.pc = "completed", !.calls = @ + 1, !.expr = expr,
                              !.isProcessing = FALSE]
           \* what processExpression returns for the truth table it made
           Processed(validation, truthTable) ==
             [expression |-> expr, ast |-> validation.ast,
              variables |-> validation.variables, truthTable |-> truthTable,
              simplification |-> Simplification(validation.variables, truthTable, FALSE)]
           \* the state in which process leaves the provider
           After(validation) ==
             IF validation.threw
             THEN [call EXCEPT !.error = <<validation.message>>, !.result = <<>>,
                               !.returned = FALSE]
             ELSE [call EXCEPT
                     !.error = IF Len(validation.variables) > 6
                               THEN <<"Expression has more than 6 variables. Please simplify for best performance.">>
                               ELSE <<>>,
                     !.result = <<Processed(validation,
                                    generateTruthTable_js(validation.ast,
                                                          validation.variables, FALSE))>>,
                     !.inputValues =
                        [j \in 1..Len(validation.variables) |->
                           [name |-> validation.variables[j],
                            value |-> IF \E i \in 1..Len(px.inputValues) :
                                            px.inputValues[i].name = validation.variables[j]
                                      THEN (CHOOSE old \in Range(px.inputValues) :
                                              old.name = validation.variables[j]).value
                                      ELSE 0]],
                     !.returned = TRUE]
       IN px' = After(ParseWith("client", expr))
  /\ UNCHANGED <<qm, tt, ps>>

SpecProvider == ProviderInit /\ [][process]_vars

(***************************************************************************)
(* Karnaugh maps: generator.ts of the engine and kmap.js of the client.     *)
(* A function is given to the engine by the set ones of the minterm numbers *)
(* at which evaluate(ast, binding) is true, and to the client by its truth  *)
(* table.  Rows, columns and positions are counted from 0 as in the code;   *)
(* arrays are indexed from 1.                                               *)
(***************************************************************************)
\* a generateTermFromGroup that takes every bit of the first minterm as
\* constant: the term of that one cell, whatever the group
generateTermFromGroupOfFirstCell(minterms, variables) ==
  IF Len(minterms) = 0 THEN <<>>
  ELSE LET n == Len(variables)
           literals == [i \in 1..n |->
                          IF ShiftBit(minterms[1], n - i) = 1 THEN variables[i]
                          ELSE variables[i] \o <<"'">>]
       IN IF Len(literals) > 0 THEN Concat(literals) ELSE <<"1">>

\* generateTermFromGroup(minterms, variables)
generateTermFromGroup(minterms, variables) ==
  IF Len(minterms) = 0 THEN <<>>
  ELSE LET n == Len(variables)
           firstBit(i) == ShiftBit(minterms[1], n - 1 - i)
           isConstant(i) == \A k \in 1..Len(minterms) :
                               ShiftBit(minterms[k], n - 1 - i) = firstBit(i)
           constant == SelectSeq([i \in 1..n |-> i - 1], isConstant)
           literals == [j \in 1..Len(constant) |->
                          IF firstBit(constant[j]) = 1 THEN variables[constant[j] + 1]
                          ELSE variables[constant[j] + 1] \o <<"'">>]
       IN IF Len(literals) > 0 THEN Concat(literals) ELSE <<"1">>

\* the greedy set cover of findKMapGroups: while (covered.size <
\* oneCells.size) the first group of possibleGroups with the largest number
\* of cells outside covered is used; break when no group has one
RECURSIVE CoverLoop(_, _, _, _)
CoverLoop(possibleGroups, oneCells, covered, usedGroups) ==
  IF Cardinality(covered) >= Cardinality(oneCells) THEN usedGroups
  ELSE LET newCoverage == [j \in 1..Len(possibleGroups) |->
                             Cardinality({i \in 1..Len(possibleGroups[j].cells) :
                                            possibleGroups[j].cells[i] \notin covered})]
                          \o <<>>
           better == {j \in 1..Len(possibleGroups) :
                        /\ newCoverage[j] > 0
                        /\ \A i \in 1..Len(possibleGroups) : newCoverage[i] <= newCoverage[j]}
       IN IF better = {} THEN usedGroups
          ELSE LET bestGroup == possibleGroups[CHOOSE j \in better : \A i \in better : j <= i]
               IN CoverLoop(possibleGroups, oneCells,
                            covered \cup Range(bestGroup.cells),
                            Append(usedGroups, bestGroup))

\* findKMapGroups(cells, numVars, variables) of generator.ts; id (a random
\* string) is left out of a group and color is the index into GROUP_COLORS
findKMapGroups(cells, numVars, variables) ==
  LET rows == Len(cells)
      cols == Len(cells[1])
      oneCells == {cells[at[1]][at[2]].minterm :
                     at \in {at \in (1..rows) \X (1..cols) : cells[at[1]][at[2]].value}}
      groupSizes ==
        SelectSeq(<<[rows |-> rows, cols |-> cols], [rows |-> rows, cols |-> cols \div 2],
                    [rows |-> rows \div 2, cols |-> cols],
                    [rows |-> rows \div 2, cols |-> cols \div 2],
                    [rows |-> 1, cols |-> cols], [rows |-> rows, cols |-> 1],
                    [rows |-> 1, cols |-> cols \div 2], [rows |-> rows \div 2, cols |-> 1],
                    [rows |-> 2, cols |-> 2], [rows |-> 1, cols |-> 2],
                    [rows |-> 2, cols |-> 1], [rows |-> 1, cols |-> 1]>>,
                  LAMBDA size : size.rows >= 1 /\ size.cols >= 1)
      \* groupCells of the k-th pass of the loops over size, startRow and
      \* startCol; <<>> when a cell of the rectangle holds no 1
      GroupCells(k) ==
        LET size == groupSizes[((k - 1) \div (rows * cols)) + 1]
            startRow == ((k - 1) % (rows * cols)) \div cols
            startCol == (k - 1) % cols
            group == [i \in 1..(size.rows * size.cols) |->
                     cells[((startRow + ((i - 1) \div size.cols)) % rows) + 1]
                          [((startCol + ((i - 1) % size.cols)) % cols) + 1]] \o <<>>
        IN IF \A i \in 1..Len(group) : group[i].value
           THEN [i \in 1..Len(group) |-> group[i].minterm]
           ELSE <<>>
      \* the groupCells of every pass, in the order of the passes
      passes == [k \in 1..(Len(groupSizes) * rows * cols) |-> GroupCells(k)] \o <<>>
      \* the passes that push a group: the rectangle holds 1s only, their
      \* number is a power of 2, and no group with the same cells has been
      \* pushed, that is, no earlier pass had the same cells
      pushed == SelectSeq(Indices(Len(passes)),
                  LAMBDA k : /\ Len(passes[k]) > 0
                             /\ \E e \in 0..Len(passes[k]) : Len(passes[k]) = Pow2(e)
                             /\ \A j \in 1..(k - 1) :
                                   \/ Len(passes[j]) # Len(passes[k])
                                   \/ Range(passes[j]) # Range(passes[k]))
      collected == [j \in 1..Len(pushed) |->
                      [cells |-> passes[pushed[j]], size |-> Len(passes[pushed[j]]),
                       term |-> generateTermFromGroup(passes[pushed[j]], variables)]] \o <<>>
      \* possibleGroups.sort((a, b) => b.size - a.size), a stable sort
      sorted == Concat([e \in 1..5 |->
                          SelectSeq(collected, LAMBDA g : g.size = Pow2(5 - e))]) \o <<>>
      usedGroups == CoverLoop(sorted, oneCells, {}, <<>>)
  IN IF oneCells = {} THEN <<>>
     ELSE [i \in 1..Len(usedGroups) |->
             [cells |-> usedGroups[i].cells, color |-> (i - 1) % 8,
              term |-> usedGroups[i].term]]

\* generateKMap(ast, variables, truthTable) of generator.ts with
\* getKMapLabels, createKMapCells and calculateMinterm; markGroupedCells
\* sets the fields grouped and groupIds of the cells, which nothing here reads
generateKMap(ones, variables) ==
  LET n == Len(variables)
      GRAY_CODE_1 == <<<<"0">>, <<"1">>>>
      GRAY_CODE_2 == <<<<"0", "0">>, <<"0", "1">>, <<"1", "1">>, <<"1", "0">>>>
      rowVars == SubSeq(variables, 1, IF n = 4 THEN 2 ELSE 1)
      colVars == SubSeq(variables, Len(rowVars) + 1, n)
      rowLabels == IF n = 4 THEN GRAY_CODE_2 ELSE GRAY_CODE_1
      colLabels == IF n = 2 THEN GRAY_CODE_1 ELSE GRAY_CODE_2
      binding(r, c) ==
        [name \in Range(variables) |->
           \/ \E i \in 1..Len(rowVars) : rowVars[i] = name /\ rowLabels[r][i] = "1"
           \/ \E i \in 1..Len(colVars) : colVars[i] = name /\ colLabels[c][i] = "1"]
      cells == [r \in 1..Len(rowLabels) |->
                  [c \in 1..Len(colLabels) |->
                     LET minterm == getMintermNumber(binding(r, c), variables)
                     IN [row |-> r - 1, col |-> c - 1, value |-> minterm \in ones,
                         minterm |-> minterm]]]
  IN [variables |-> variables, numVars |-> n, cells |-> cells,
      groups |-> findKMapGroups(cells, n, variables)]

\* kmapToSOP(kmap)
kmapToSOP(kmap) ==
  LET cells == Concat(kmap.cells)
  IN IF Len(kmap.groups) = 0
     THEN (IF \E i \in 1..Len(cells) : cells[i].value THEN <<"?">> ELSE <<"0">>)
     ELSE IF \A i \in 1..Len(cells) : cells[i].value THEN <<"1">>
     ELSE Join([j \in 1..Len(kmap.groups) |-> kmap.groups[j].term], <<" ", "+", " ">>)

\* generateKMap(truthTable) of kmap.js, with getGrayCode; the numbers given
\* to getGrayCode are below 4
generateKMap_js(truthTable) ==
  LET variables == truthTable.variables
      rows == truthTable.rows
      n == Len(variables)
      rowVars == SubSeq(variables, 1, IF n = 2 \/ n = 3 THEN 1 ELSE 2)
      colVars == SubSeq(variables, Len(rowVars) + 1, n)
      numRows == Pow2(Len(rowVars))
      numCols == Pow2(Len(colVars))
      getGrayCode(position, bits) ==
        LET shifted == position \div 2
            gray == ((position + shifted) % 2)
                    + 2 * (((position \div 2) + (shifted \div 2)) % 2)
        IN padStart(toString2(gray), bits, "0")
      rowHeaders == [i \in 1..numRows |-> getGrayCode(i - 1, Len(rowVars))]
      colHeaders == [i \in 1..numCols |-> getGrayCode(i - 1, Len(colVars))]
      parseInt(c) == IF c = "1" THEN 1 ELSE 0
      assignment(r, c) ==
        [name \in Range(variables) |->
           IF \E i \in 1..Len(colVars) : colVars[i] = name
           THEN parseInt(colHeaders[c][CHOOSE i \in 1..Len(colVars) :
                                         colVars[i] = name /\ \A k \in (i + 1)..Len(colVars) :
                                                                 colVars[k] # name])
           ELSE parseInt(rowHeaders[r][CHOOSE i \in 1..Len(rowVars) :
                                         rowVars[i] = name /\ \A k \in (i + 1)..Len(rowVars) :
                                                                 rowVars[k] # name])]
      matching(r, c) ==
        SelectSeq(rows, LAMBDA row : \A v \in Range(variables) :
                                       row.inputs[v] = assignment(r, c)[v])
      cellData == [r \in 1..numRows |->
                     [c \in 1..numCols |->
                        LET found == matching(r, c) \o <<>>
                        IN [value |-> IF Len(found) > 0 THEN found[1].output ELSE 0,
                            minterm |-> IF Len(found) > 0 THEN found[1].index ELSE Null,
                            row |-> r - 1, col |-> c - 1,
                            assignment |-> assignment(r, c)]]]
  IN [variables |-> variables, rowVars |-> rowVars, colVars |-> colVars,
      rowHeaders |-> rowHeaders, colHeaders |-> colHeaders,
      grid |-> [r \in 1..numRows |-> [c \in 1..numCols |-> cellData[r][c].value]],
      cellData |-> cellData, numRows |-> numRows, numCols |-> numCols]

\* findKMapGroups(kmap) of kmap.js with getPossibleDimensions, isPowerOf2,
\* tryGroup, calculateGroupTerm and removeRedundantGroups; the field key of a
\* group, which nothing reads, is left out
findKMapGroups_js(kmap) ==
  LET grid == kmap.grid
      numRows == kmap.numRows
      numCols == kmap.numCols
      cellData == kmap.cellData
      Key(cell) == cell.r * numCols + cell.c
      ones == LET at == SelectSeq([i \in 1..(numRows * numCols) |-> i - 1],
                                  LAMBDA i : grid[(i \div numCols) + 1][(i % numCols) + 1] = 1)
              IN [j \in 1..Len(at) |-> [r |-> at[j] \div numCols, c |-> at[j] % numCols]]
      groupSizes == SelectSeq(<<16, 8, 4, 2, 1>>, LAMBDA size : size <= numRows * numCols)
      isPowerOf2(k) == k > 0 /\ \E e \in 0..k : k = Pow2(e)
      getPossibleDimensions(size, maxRows, maxCols) ==
        LET h == SelectSeq([i \in 1..(IF size < maxRows THEN size ELSE maxRows) |-> i],
                           LAMBDA i : /\ size % i = 0
                                      /\ size \div i <= maxCols
                                      /\ isPowerOf2(i) /\ isPowerOf2(size \div i))
        IN [j \in 1..Len(h) |-> <<h[j], size \div h[j]>>]
      dimensions == Concat([j \in 1..Len(groupSizes) |->
                              getPossibleDimensions(groupSizes[j], numRows, numCols)]) \o <<>>
      \* tryGroup(grid, startR, startC, height, width, numRows, numCols);
      \* <<>> for null
      tryGroup(startR, startC, height, width) ==
        LET cells == [i \in 1..(height * width) |->
                        [r |-> (startR + ((i - 1) \div width)) % numRows,
                         c |-> (startC + ((i - 1) % width)) % numCols]] \o <<>>
        IN IF \E i \in 1..Len(cells) : grid[cells[i].r + 1][cells[i].c + 1] # 1
           THEN <<>>
           ELSE <<[cells |-> cells, size |-> Len(cells), startR |-> startR,
                   startC |-> startC, height |-> height, width |-> width]>>
      \* the k-th pass of the loops over the sizes, their dimensions, startR
      \* and startC
      Pass(dimension, k) ==
        tryGroup(((k - 1) % (numRows * numCols)) \div numCols, (k - 1) % numCols,
                 dimension[1], dimension[2])
      calculateGroupTerm(cells) ==
        LET allVars == kmap.rowVars \o kmap.colVars
            firstCell == cellData[cells[1].r + 1][cells[1].c + 1]
            isConstant(i) == \A k \in 1..Len(cells) :
                                cellData[cells[k].r + 1][cells[k].c + 1].assignment[allVars[i]]
                                = firstCell.assignment[allVars[i]]
            constant == SelectSeq([i \in 1..Len(allVars) |-> i], isConstant)
            term == [j \in 1..Len(constant) |->
                       IF firstCell.assignment[allVars[constant[j]]] # 0
                       THEN allVars[constant[j]]
                       ELSE allVars[constant[j]] \o <<"'">>]
        IN IF Len(term) > 0 THEN Concat(term) ELSE <<"1">>
      \* what tryGroup returns in every pass, in the order of the passes
      passes == [k \in 1..(Len(dimensions) * numRows * numCols) |->
                   Pass(dimensions[((k - 1) \div (numRows * numCols)) + 1], k)] \o <<>>
      \* the groups pushed: a pass pushes its group if it has a cell outside
      \* covered.  covered holds the cells of every group returned so far,
      \* since a group that is not pushed has no cell outside it.
      Pushed(returned) ==
        LET pushed == SelectSeq(Indices(Len(returned)),
                        LAMBDA k : /\ Len(returned[k]) > 0
                                   /\ \E i \in 1..Len(returned[k][1].cells) :
                                         \A j \in 1..(k - 1) :
                                            \/ Len(returned[j]) = 0
                                            \/ returned[k][1].cells[i]
                                                 \notin Range(returned[j][1].cells))
        IN [j \in 1..Len(pushed) |->
              LET group == returned[pushed[j]][1]
              IN [cells |-> group.cells, size |-> group.size,
                  startR |-> group.startR, startC |-> group.startC,
                  height |-> group.height, width |-> group.width,
                  term |-> calculateGroupTerm(group.cells)]] \o <<>>
      \* groups.sort((a, b) => b.size - a.size), a stable sort
      Sorted(groups) ==
        Concat([e \in 1..5 |-> SelectSeq(groups, LAMBDA g : g.size = Pow2(5 - e))]) \o <<>>
      \* removeRedundantGroups(groups): a group is essential if it has a cell
      \* outside covered.  covered holds the cells of every group before it,
      \* since a group that is not essential has no cell outside it.
      removeRedundantGroups(groups) ==
        LET essential ==
              SelectSeq(Indices(Len(groups)),
                LAMBDA j : \E i \in 1..Len(groups[j].cells) :
                   \A h \in 1..(j - 1) :
                      Key(groups[j].cells[i]) \notin
                        {Key(groups[h].cells[k]) : k \in 1..Len(groups[h].cells)})
        IN [k \in 1..Len(essential) |-> groups[essential[k]]]
  IN IF Len(ones) = 0 THEN <<>>
     ELSE IF Len(ones) = numRows * numCols
     THEN <<[cells |-> ones, size |-> Len(ones), term |-> <<"1">>]>>
     ELSE removeRedundantGroups(Sorted(Pushed(passes)))

\* generateSimplifiedSOP(kmap, groups) of kmap.js
generateSimplifiedSOP(kmap, groups) ==
  IF Len(groups) = 0 THEN <<"0">>
  ELSE LET terms == [j \in 1..Len(groups) |-> groups[j].term]
           first == SelectSeq(Indices(Len(terms)),
                              LAMBDA j : \A i \in 1..(j - 1) : terms[i] # terms[j])
           uniqueTerms == [j \in 1..Len(first) |-> terms[first[j]]]
       IN IF Len(uniqueTerms) = 1 /\ uniqueTerms[1] = <<"1">> THEN <<"1">>
          ELSE Join(uniqueTerms, <<" ", "+", " ">>)

\* a function of 2, 3 or 4 variables whose minterm numbers are at most
\* MaxCell, given to the engine's generator followed by kmapToSOP or, as
\* the truth table generateTruthTable makes for it, to the client's
\* generator followed by findKMapGroups and generateSimplifiedSOP
KMapInit ==
  /\ qm = Idle /\ ps = Idle /\ px = Idle
  /\ \E impl \in {"ts", "client"}, numVars \in 2..4 :
       \E ones \in SUBSET {m \in 0..(Pow2(numVars) - 1) : m <= MaxCell} :
         tt = [pc |-> "function", impl |-> impl, variables |-> SubSeq(AllNames, 1, numVars),
               ones |-> ones, kmap |-> <<>>, groups |-> <<>>, sop |-> <<>>]

\* the map, its groups and the sum of products
KMap ==
  /\ tt.pc = "function"
  /\ IF tt.impl = "ts"
     THEN LET kmap == generateKMap(tt.ones, tt.variables)
          IN tt' = [tt EXCEPT !.pc = "map", !.kmap = kmap, !.groups = kmap.groups,
                              !.sop = kmapToSOP(kmap)]
     ELSE LET variables == tt.variables
              truthTable == TableOf(variables,
                              [r \in 1..Pow2(Len(variables)) |->
                                 [index |-> r - 1, inputs |-> RowObject(variables, r - 1),
                                  output |-> IF r - 1 \in tt.ones THEN 1 ELSE 0,
                                  error |-> FALSE]])
              kmap == generateKMap_js(truthTable)
              kmapGroups == findKMapGroups_js(kmap)
          IN tt' = [tt EXCEPT !.pc = "map", !.kmap = kmap, !.groups = kmapGroups,
                              !.sop = generateSimplifiedSOP(kmap, kmapGroups)]
  /\ UNCHANGED <<qm, ps, px>>

SpecKMap == KMapInit /\ [][KMap]_vars

(***************************************************************************)
(* Claims                                                                  *)
(***************************************************************************)
\* C1: the expression returned by quineMcCluskey, read as an OR of product
\* terms over the variable names, is true on exactly the input minterms;
\* the empty set gives "0" and the full set gives "1".
C1_SopMatchesMinterms ==
  qm.pc = "done" =>
    /\ \A m \in 0..(Pow2(qm.numVars) - 1) :
          SopTrue(qm.result.expression, qm.variables, m) <=> m \in Range(qm.minterms)
    /\ (Len(qm.minterms) = 0 => qm.result.expression = <<"0">>)
    /\ (Len(qm.minterms) = Pow2(qm.numVars) => qm.result.expression = <<"1">>)
    /\ qm.result = quineMcCluskey(qm.minterms, qm.numVars, qm.variables)

\* a finished run on the cyclic function {0,1,2,5,6,7}, which needs the greedy loop
C1_Witness ==
  /\ qm.pc = "done"
  /\ qm.minterms = <<0, 1, 2, 5, 6, 7>>
  /\ qm.g.essential # <<>>
  /\ Len(qm.result.essentialImplicants) >= 3

C3_PrecedenceAndGrouping ==
  (ps.pc = "parsed" /\ ps.family \in {"flat", "left", "right"}) =>
    LET Leaf(name) == [type |-> "VARIABLE", name |-> name, literal |-> FALSE, kids |-> <<>>]
        Bin(type, l, r) == [type |-> type, name |-> <<>>, literal |-> FALSE, kids |-> <<l, r>>]
        a == Leaf(ps.parts[1])
        b == Leaf(ps.parts[3])
        c == Leaf(ps.parts[5])
        leftFirst == Bin(ps.ops[2], Bin(ps.ops[1], a, b), c)
        rightFirst == Bin(ps.ops[1], a, Bin(ps.ops[2], b, c))
        tier == [type \in BinaryTypes |->
                   IF type \in {"AND", "NAND"} THEN 3
                   ELSE IF type \in {"XOR", "XNOR"} THEN 2 ELSE 1]
    IN /\ ~ps.result.threw
       /\ Shape(ps.result.ast) =
            (IF ps.family = "left" THEN leftFirst
             ELSE IF ps.family = "right" THEN rightFirst
             ELSE IF tier[ps.ops[1]] >= tier[ps.ops[2]] THEN leftFirst
             ELSE rightFirst)

\* "A NOR B NAND C" parsed by the TypeScript parser as NOR(A, NAND(B, C))
C3_Witness ==
  /\ ps.pc = "parsed" /\ ps.impl = "ts" /\ ps.family = "flat"
  /\ ps.ops = <<"NOR", "NAND">>
  /\ ~ps.result.threw
  /\ ps.result.ast.type = "NOR"
  /\ ps.result.ast.kids[2].type = "NAND"

\* C4: in every parser, when an operand is followed by a variable, a
\* literal, a prefix NOT or '(' with no operator in between, the parser makes
\* an AND node of the operand and the following unary expression instead of
\* reporting an error.
C4_ImplicitAndInEveryParser ==
  (ps.pc = "parsed" /\ ps.family = "adjacent") =>
    /\ ~ps.result.threw
    /\ ps.result.ast.type = "AND"
    /\ Shape(ps.result.ast.kids[1]) = Shape(ParseWith(ps.impl, ps.parts[1]).ast)
    /\ Shape(ps.result.ast.kids[2]) = Shape(ParseWith(ps.impl, ps.parts[3]).ast)

\* the client parser reports an error on "A ~B"
C4_Witness ==
  /\ ps.pc = "parsed" /\ ps.impl = "client" /\ ps.family = "adjacent"
  /\ ps.input = <<"A", " ", "~", "B">>
  /\ ps.result.threw

\* C5: an input of adjacent letters with no separator, such as "AB", parses
\* to the conjunction of the one-letter variables: the same tree and
\* variables as "A AND B".
C5_AdjacentLettersAreConjunction ==
  (/\ ps.pc = "parsed" /\ ps.family = "free" /\ Len(ps.parts) = 2
   /\ \A k \in 1..2 : Len(ps.parts[k]) = 1 /\ IsLetter(ps.parts[k][1])) =>
    LET spelled == ParseWith(ps.impl,
                     ps.parts[1] \o <<" ", "A", "N", "D", " ">> \o ps.parts[2])
    IN /\ ~ps.result.threw
       /\ Shape(ps.result.ast) = Shape(spelled.ast)
       /\ ps.result.variables = spelled.variables

\* "AB" parsed by the TypeScript parser as the one variable AB
C5_Witness ==
  /\ ps.pc = "parsed" /\ ps.impl = "ts"
  /\ ps.input = <<"A", "B">>
  /\ ~ps.result.threw
  /\ ps.result.ast.type = "VARIABLE"
  /\ ps.result.variables = <<<<"A", "B">>>>

\* C6: every lexer turns variable names to upper case, so an input and the
\* same input with its letters in upper case have the same variable list
\* ("a AND A" has the single variable "A").
C6_VariablesUppercased ==
  /\ (ps.pc = "tokens" /\ ~ps.lexed.threw) =>
        \A k \in 1..Len(ps.lexed.tokens) :
           ps.lexed.tokens[k].type = "VARIABLE" =>
             ps.lexed.tokens[k].value = toUpperCase(ps.lexed.tokens[k].value)
  /\ (ps.pc = "parsed" /\ ~ps.result.threw) =>
        /\ ~ParseWith(ps.impl, toUpperCase(ps.input)).threw
        /\ ps.result.variables = ParseWith(ps.impl, toUpperCase(ps.input)).variables

\* "a and A" parsed by the client library with the two variables A and a
C6_Witness ==
  /\ ps.pc = "parsed" /\ ps.impl = "client"
  /\ ps.input = <<"a", " ", "a", "n", "d", " ", "A">>
  /\ ~ps.result.threw
  /\ ps.result.variables = <<<<"A">>, <<"a">>>>

\* C7: evaluate fails with an undefined-variable error whenever some Variable
\* node of the tree has a name absent from the bindings, and returns a value
\* only when every variable of the tree is bound (TypeScript evaluate, client
\* and server node.evaluate).
C7_UnboundVariableThrows ==
  (tt.pc = "returned" /\ tt.job \in {"evaluate", "evaluate.client", "evaluate.server"}) =>
    (tt.out.threw <=> ~(VariablesOf(tt.ast) \subseteq DOMAIN tt.bindings))

\* evaluate returned a value although a variable of the tree was unbound
C7_Witness ==
  /\ tt.pc = "returned" /\ tt.job = "evaluate"
  /\ tt.ast.type = "AND"
  /\ ~(VariablesOf(tt.ast) \subseteq DOMAIN tt.bindings)
  /\ ~tt.out.threw

\* C8: for every tree and every full binding, the trace of evaluateWithTrace
\* has an entry for the id of every node of the tree, equal to the value
\* evaluate returns for the subtree rooted at that node.
C8_TraceCoversEveryNode ==
  (/\ tt.pc = "returned" /\ tt.job = "evaluateWithTrace"
   /\ VariablesOf(tt.ast) \subseteq DOMAIN tt.bindings) =>
    /\ ~tt.out.threw
    /\ \A n \in NodesOf(tt.ast) :
         /\ n.id \in DOMAIN tt.out.trace
         /\ tt.out.trace[n.id] = evaluate(n, tt.bindings).value

\* a traced evaluation under a full binding that left a node out of the trace
C8_Witness ==
  /\ tt.pc = "returned" /\ tt.job = "evaluateWithTrace"
  /\ VariablesOf(tt.ast) \subseteq DOMAIN tt.bindings
  /\ ~tt.out.threw
  /\ \E n \in NodesOf(tt.ast) : n.id \notin DOMAIN tt.out.trace

\* C9: whenever the variable list has more than 8 names, truth-table
\* generation is rejected with a too-many-variables error (and no shorter
\* table is returned): generateTruthTable of the engine, and generateTruthTable
\* as processExpression of the client and of the server calls it.
C9_MoreThanEightVariablesRejected ==
  (/\ px.pc \in {"table", "returned"} /\ px.job \in {"engine", "client", "server"}
   /\ px.error = "" /\ Len(px.parsed.variables) > 8) =>
    /\ px.truthTable.threw
    /\ px.truthTable.message = "Too many variables"
    /\ px.truthTable.rows = <<>>

\* processExpression of the client library has made a table of 512 rows for
\* an expression of nine variables
C9_Witness ==
  /\ px.pc = "table" /\ px.job = "client" /\ px.distinct = 9
  /\ Len(px.parsed.variables) = 9
  /\ ~px.truthTable.threw
  /\ Len(px.truthTable.rows) = 512

\* C10: for every valid expression, processExpression (client and server)
\* computes a simplification exactly when the expression has at most 6
\* distinct variables, quineMcCluskey is never called with numVars > 6, and
\* POST /simplify answers 400 for every expression with more than 6 distinct
\* variables.
C10_SimplificationCappedAtSix ==
  /\ (px.pc = "returned" /\ px.job \in {"client", "server"} /\ px.valid) =>
        /\ px.error = ""
        /\ Len(px.parsed.variables) = px.distinct
        /\ px.simplification.computed <=> px.distinct <= 6
  /\ px.simplification.computed => px.simplification.numVars <= 6
  /\ (px.pc = "responded" /\ px.job = "simplify" /\ px.valid /\ px.distinct > 6) =>
        px.response.status = 400

\* POST /simplify has answered 400 "Simplification not available" for a valid
\* expression of seven variables
C10_Witness ==
  /\ px.pc = "responded" /\ px.job = "simplify" /\ px.valid /\ px.distinct = 7
  /\ px.error = ""
  /\ Len(px.truthTable.rows) = 128
  /\ ~px.simplification.computed
  /\ px.response = Response(400, "Simplification not available")

\* C11: POST /validate answers with status 200 for every request, whatever
\* the body: a missing expression, one that is not a string, the empty
\* string, or an expression that the lexer or the parser rejects.
C11_ValidateAlways200 ==
  (px.pc = "responded" /\ px.job = "validate") => px.response.status = 200

\* POST /validate has answered 400 to a request whose expression is the empty
\* string
C11_Witness ==
  /\ px.pc = "responded" /\ px.job = "validate"
  /\ px.body = "string" /\ px.expression = <<>>
  /\ px.response = Response(400, "Invalid request")

\* C12: for every input string, parseExpression of parser.ts returns one of
\* two things: no error, a complete tree that accounts for every token up to
\* EOF, and the sorted, duplicate-free names of its variables; or an error,
\* no tree and no variables.  No partially built tree is returned.
C12_ParseAllOrNothing ==
  (ps.pc = "parsed" /\ ps.impl = "ts") =>
    IF ps.result.threw
    THEN ps.result.ast = Null /\ ps.result.variables = <<>>
    ELSE LET ast == ps.result.ast
             variables == ps.result.variables
             tokens == ps.lexed.tokens
             Count(types) == Cardinality({k \in 1..Len(tokens) : tokens[k].type \in types})
             Nodes(types) == Cardinality({n \in NodesOf(ast) : n.type \in types})
         IN /\ ~ps.lexed.threw
            /\ \A n \in NodesOf(ast) :
                  Len(n.kids) = (IF n.type \in BinaryTypes THEN 2
                                 ELSE IF n.type = "NOT" THEN 1 ELSE 0)
            /\ Nodes({"VARIABLE", "LITERAL"}) = Count({"VARIABLE", "LITERAL"})
            /\ Nodes({"NOT"}) = Count({"NOT"})
            /\ Nodes(BinaryTypes) = Nodes({"VARIABLE", "LITERAL"}) - 1
            /\ Count({"LPAREN"}) = Count({"RPAREN"})
            /\ tokens[Len(tokens)].type = "EOF"
            /\ Range(variables) = VariablesOf(ast)
            /\ \A i \in 1..Len(variables), j \in 1..Len(variables) :
                  i < j => StringLess(variables[i], variables[j])

\* both outcomes in one run is impossible, so the witness is the successful
\* one on an input with a repeated name in two cases and an implicit AND:
\* "a A" gives AND(A, A) with the one variable A
C12_Witness ==
  /\ ps.pc = "parsed" /\ ps.impl = "ts"
  /\ ps.input = <<"a", " ", "A">>
  /\ ~ps.result.threw
  /\ ps.result.ast.type = "AND"
  /\ ps.result.variables = <<<<"A">>>>

\* C13: the tree of every successful parse, written as text by astToString
\* (TypeScript) or toString (class-based) and parsed again by the same lexer
\* and parser, parses successfully to a tree of the same structure (node ids
\* apart) with the same variables.
C13_RenderParseRoundTrip ==
  ps.pc = "reparsed" =>
    /\ ~ps.again.threw
    /\ Shape(ps.again.ast) = Shape(ps.result.ast)
    /\ ps.again.variables = ps.result.variables

\* "A B'" parsed by the client library is AND(A, NOT(B)), written
\* "(A AND ~B)", whose text differs from the input and parses to the same tree
C13_Witness ==
  /\ ps.pc = "reparsed" /\ ps.impl = "client"
  /\ ps.input = <<"A", " ", "B", "'">>
  /\ ps.text = <<"(", "A", " ", "A", "N", "D", " ", "~", "B", ")">>
  /\ ~ps.again.threw
  /\ ps.again.ast.type = "AND"

\* C14: after any sequence of parse and clone operations of the class-based
\* AST, the tree clone() returns has the structure of its source, pairwise
\* distinct node ids, and no id of a node of its source.
C14_CloneFreshIds ==
  ps.pc = "cloned" =>
    LET ids(tree) == {n.id : n \in NodesOf(tree)}
    IN /\ Shape(ps.copy) = Shape(ps.held)
       /\ Cardinality(ids(ps.copy)) = Size(ps.copy)
       /\ ids(ps.copy) \cap ids(ps.held) = {}

\* "A|B" is parsed (ids 1, 2, 3), then "A" (the counter is reset and ends at
\* 1), then the first tree is cloned: the copy has the ids 2, 3, 4
C14_Witness ==
  /\ ps.pc = "cloned"
  /\ ps.input = <<"A", "|", "B">>
  /\ ps.result.ast.id = 1
  /\ Shape(ps.copy) = Shape(ps.held)
  /\ {n.id : n \in NodesOf(ps.held)} = {1, 2, 3}
  /\ {n.id : n \in NodesOf(ps.copy)} = {2, 3, 4}

\* C15: the implicants quineMcCluskey selects cover every input minterm, and
\* no set of prime implicants with fewer members covers them all.
C15_MinimumCover ==
  (qm.pc = "done" /\ Len(qm.result.primeImplicants) > 0) =>
    LET primeImplicants == qm.result.primeImplicants
        selected == qm.result.essentialImplicants
        Covered(imps, chosen) ==
          \A k \in 1..Len(qm.minterms) :
            \E i \in chosen : covers(imps[i], qm.minterms[k], qm.numVars)
    IN /\ Covered(selected, 1..Len(selected))
       /\ \A chosen \in SUBSET (1..Len(primeImplicants)) :
            Covered(primeImplicants, chosen) => Cardinality(chosen) >= Len(selected)

\* for the minterms 0, 1, 2, 5, 10, 11, 12, 13 of four variables five
\* implicants are selected, the greedy loop taking 000- first, while the four
\* prime implicants 101-, 110-, 00-0, 0-01 cover every minterm
C15_Witness ==
  /\ qm.pc = "done" /\ qm.numVars = 4
  /\ Len(qm.result.essentialImplicants) = 5
  /\ \E chosen \in SUBSET (1..Len(qm.result.primeImplicants)) :
       /\ Cardinality(chosen) = 4
       /\ {qm.result.primeImplicants[i].binary : i \in chosen}
            = {<<"1", "0", "1", "-">>, <<"1", "1", "0", "-">>,
               <<"0", "0", "-", "0">>, <<"0", "-", "0", "1">>}
       /\ \A k \in 1..Len(qm.minterms) :
            \E i \in chosen :
              covers(qm.result.primeImplicants[i], qm.minterms[k], qm.numVars)

\* C16: for every minterm set that is neither empty nor full, the
\* primeImplicants quineMcCluskey returns are exactly the prime implicants of
\* the function, each once: a pattern is returned iff every combination it
\* matches is an input minterm and a dash in place of any one of its fixed
\* positions would match a combination that is not.
C16_ExactlyThePrimeImplicants ==
  (qm.pc = "done" /\ Len(qm.minterms) > 0 /\ Len(qm.minterms) < Pow2(qm.numVars)) =>
    LET returned == qm.result.primeImplicants
        others == {padStart(toString2(m), qm.numVars, "0") :
                     m \in (0..(Pow2(qm.numVars) - 1)) \ Range(qm.minterms)}
        IsImplicant(pattern) ==
          \A bits \in others : \E i \in 1..qm.numVars :
             pattern[i] # "-" /\ pattern[i] # bits[i]
        IsPrime(pattern) ==
          /\ IsImplicant(pattern)
          /\ \A i \in 1..qm.numVars :
                pattern[i] # "-" => ~IsImplicant([pattern EXCEPT ![i] = "-"])
    IN /\ {returned[i].binary : i \in 1..Len(returned)}
            = {pattern \in [1..qm.numVars -> {"0", "1", "-"}] : IsPrime(pattern)}
       /\ \A i \in 1..Len(returned), j \in 1..Len(returned) :
            returned[i].binary = returned[j].binary => i = j

\* minterms 0, 1, 3 of two variables: the prime implicants are 0- and -1,
\* found in the first round, none of them a seed
C16_Witness ==
  /\ qm.pc = "done" /\ qm.numVars = 2 /\ qm.minterms = <<0, 1, 3>>
  /\ qm.iteration = 2
  /\ [i \in 1..Len(qm.result.primeImplicants) |-> qm.result.primeImplicants[i].binary]
       = <<<<"0", "-">>, <<"-", "1">>>>

\* C17 as the code has it: the truth table of "(A AND NOT S) OR (B AND S)" has
\* the variables A, B, S in this order and 8 rows, 4 of them with output 1:
\* the minterms 3, 4, 6, 7 (A the most significant bit), in the engine, the
\* client library and the server library alike.
C17_MultiplexerMinterms ==
  (px.expression = Multiplexer /\ Len(px.truthTable.rows) > 0) =>
    LET rows == px.truthTable.rows
        ones == {r \in 1..Len(rows) : rows[r].output = (IF px.job = "engine" THEN TRUE ELSE 1)}
    IN /\ px.truthTable.variables = <<<<"A">>, <<"B">>, <<"S">>>>
       /\ Len(rows) = 8
       /\ Cardinality(ones) = 4
       /\ {IF px.job = "engine" THEN rows[r].minterm ELSE rows[r].index : r \in ones}
            = {3, 4, 6, 7}

\* C17 as stated: the rows with output 1 are the minterms 1, 2, 5, 7.
C17_AsStated ==
  (px.expression = Multiplexer /\ Len(px.truthTable.rows) > 0) =>
    LET rows == px.truthTable.rows
        ones == {r \in 1..Len(rows) : rows[r].output = (IF px.job = "engine" THEN TRUE ELSE 1)}
    IN /\ Len(rows) = 8
       /\ Cardinality(ones) = 4
       /\ {IF px.job = "engine" THEN rows[r].minterm ELSE rows[r].index : r \in ones}
            = {1, 2, 5, 7}

\* the server library has built the table: row 4 (A = 1, B = 0, S = 0) has
\* output 1 and row 1 (A = 0, B = 0, S = 1) has output 0
C17_Witness ==
  /\ px.expression = Multiplexer /\ px.job = "server" /\ px.pc = "table"
  /\ Len(px.truthTable.rows) = 8
  /\ px.truthTable.rows[5].inputs = [n \in {<<"A">>, <<"B">>, <<"S">>} |->
                                       IF n = <<"A">> THEN 1 ELSE 0]
  /\ px.truthTable.rows[5].output = 1
  /\ px.truthTable.rows[2].output = 0

\* C18: for two implicants with patterns of equal length, canCombineWith
\* returns a position iff the patterns have their dashes in the same positions
\* and differ in exactly one of the other positions, and it returns that
\* position; combineWith then gives the pattern with a dash there and the
\* ascending, duplicate-free union of the two minterm lists.
C18_CombineExactlyOneDifference ==
  qm.pc = "combined" =>
    LET this == qm.this
        other == qm.other
        positions == 1..Len(this.binary)
        sameDashes == \A k \in positions : (this.binary[k] = "-") = (other.binary[k] = "-")
        differing == {k \in positions : this.binary[k] # other.binary[k]}
    IN /\ (qm.diffIndex # Null) = (sameDashes /\ Cardinality(differing) = 1)
       /\ qm.diffIndex # Null =>
            /\ differing = {qm.diffIndex}
            /\ qm.combined.binary[qm.diffIndex] = "-"
            /\ \A k \in positions :
                  k # qm.diffIndex => qm.combined.binary[k] = this.binary[k]
            /\ Range(qm.combined.minterms)
                 = Range(this.minterms) \cup Range(other.minterms)
            /\ \A k \in 1..(Len(qm.combined.minterms) - 1) :
                  qm.combined.minterms[k] < qm.combined.minterms[k + 1]

\* 01- with the minterms 3, 1 and 00- with 0, 1 combine at the second
\* position: the minterms of 0-- are 0, 1, 3, the shared one once
C18_Witness ==
  /\ qm.pc = "combined"
  /\ qm.this = Implicant(<<3, 1>>, <<"0", "1", "-">>)
  /\ qm.other = Implicant(<<0, 1>>, <<"0", "0", "-">>)
  /\ qm.diffIndex = 2
  /\ qm.combined = Implicant(<<0, 1, 3>>, <<"0", "-", "-">>)

\* C19: for every tree and every binding of all its variables, evaluate of
\* evaluator.ts and node.evaluate of the class-based trees return the value of
\* the reference semantics (NOT negates; AND, OR; XOR is inequality; NAND, NOR
\* and XNOR negate AND, OR and XOR), and node.evaluate returns 1 on the
\* corresponding class-based tree exactly when evaluate returns true.
C19_EvaluatorsAgree ==
  (/\ tt.pc = "returned"
   /\ tt.job \in {"evaluate", "evaluate.client", "evaluate.server"}
   /\ VariablesOf(tt.ast) \subseteq DOMAIN tt.bindings) =>
    LET RECURSIVE Reference(_, _)
        Reference(node, holds) ==
          CASE node.type = "VARIABLE" -> node.name \in holds
            [] node.type = "LITERAL" -> node.value
            [] node.type = "CONSTANT" -> node.value = 1
            [] node.type = "NOT" -> ~Reference(node.kids[1], holds)
            [] node.type = "AND" ->
                 Reference(node.kids[1], holds) /\ Reference(node.kids[2], holds)
            [] node.type = "OR" ->
                 Reference(node.kids[1], holds) \/ Reference(node.kids[2], holds)
            [] node.type = "XOR" ->
                 Reference(node.kids[1], holds) # Reference(node.kids[2], holds)
            [] node.type = "NAND" ->
                 ~(Reference(node.kids[1], holds) /\ Reference(node.kids[2], holds))
            [] node.type = "NOR" ->
                 ~(Reference(node.kids[1], holds) \/ Reference(node.kids[2], holds))
            [] node.type = "XNOR" ->
                 ~(Reference(node.kids[1], holds) # Reference(node.kids[2], holds))
        RECURSIVE ClassBased(_)
        ClassBased(node) ==
          CASE node.type = "VARIABLE" -> VariableNode(node.name, node.id)
            [] node.type = "LITERAL" -> ConstantNode(IF node.value THEN 1 ELSE 0, node.id)
            [] node.type = "NOT" -> NotNode(ClassBased(node.kids[1]), node.id)
            [] OTHER -> BinaryNode(node.type, ClassBased(node.kids[1]),
                                   ClassBased(node.kids[2]), node.id)
    IN IF tt.job = "evaluate"
       THEN LET holds == {name \in DOMAIN tt.bindings : tt.bindings[name]}
                values == [name \in DOMAIN tt.bindings |->
                             IF tt.bindings[name] THEN 1 ELSE 0]
                bit == IF Reference(tt.ast, holds) THEN 1 ELSE 0
            IN /\ tt.out = Returned(Reference(tt.ast, holds))
               /\ nodeEvaluate(ClassBased(tt.ast), values, FALSE) = Returned(bit)
               /\ nodeEvaluate(ClassBased(tt.ast), values, TRUE) = Returned(bit)
       ELSE LET holds == {name \in DOMAIN tt.bindings : tt.bindings[name] = 1}
            IN tt.out = Returned(IF Reference(tt.ast, holds) THEN 1 ELSE 0)

\* evaluate has returned true for XNOR(NOT(A), B) with A true and B false,
\* where both operands are evaluated
C19_Witness ==
  /\ tt.pc = "returned" /\ tt.job = "evaluate"
  /\ tt.ast.type = "XNOR" /\ tt.ast.kids[1].type = "NOT"
  /\ tt.ast.kids[1].kids[1].type = "VARIABLE"
  /\ tt.ast.kids[1].kids[1].name = <<"A">>
  /\ tt.ast.kids[2].type = "VARIABLE" /\ tt.ast.kids[2].name = <<"B">>
  /\ DOMAIN tt.bindings = {<<"A">>, <<"B">>}
  /\ tt.bindings[<<"A">>] /\ ~tt.bindings[<<"B">>]
  /\ tt.out = Returned(TRUE)

\* C20: a primary p (a variable, a literal or a parenthesised group) with k
\* prefix NOT tokens before it and m apostrophes after it is parsed to p
\* inside exactly k + m NOT nodes, alone or as the right operand of an
\* operator; the apostrophes belong to the primary just before them, so
\* "A B'" is AND(A, NOT(B)).
C20_PrefixAndPostfixNot ==
  LET NotShape(operand) ==
        [type |-> "NOT", name |-> <<>>, literal |-> FALSE, kids |-> <<operand>>]
      RECURSIVE Wrapped(_, _)
      Wrapped(operand, n) ==
        IF n = 0 THEN operand ELSE NotShape(Wrapped(operand, n - 1))
      B == IF ps.impl = "ts" THEN ASTVariable(<<"B">>, 0) ELSE VariableNode(<<"B">>, 0)
  IN /\ (ps.pc = "parsed" /\ ps.family = "unary") =>
          LET primary == ParseWith(ps.impl, ps.parts[3])
              expected == Wrapped(Shape(primary.ast), Len(ps.ops))
          IN /\ ~ps.result.threw
             /\ ~primary.threw
             /\ IF ps.parts[1] = <<>>
                THEN Shape(ps.result.ast) = expected
                ELSE /\ ps.result.ast.type = "OR"
                     /\ Shape(ps.result.ast.kids[1]) = Shape(B)
                     /\ Shape(ps.result.ast.kids[2]) = expected
     /\ (ps.pc = "parsed" /\ ps.input = <<"A", " ", "B", "'">>) =>
          /\ ~ps.result.threw
          /\ ps.result.ast.type = "AND"
          /\ ps.result.ast.kids[1].type = "VARIABLE"
          /\ Shape(ps.result.ast.kids[2]) = NotShape(Shape(B))

\* "B|!~(A&C)''" parsed by the TypeScript parser: the right operand of the OR
\* is the group inside four NOT nodes
C20_Witness ==
  /\ ps.pc = "parsed" /\ ps.impl = "ts" /\ ps.family = "unary"
  /\ ps.input = <<"B", "|", "!", "~", "(", "A", "&", "C", ")", "'", "'">>
  /\ ~ps.result.threw
  /\ ps.result.ast.type = "OR"
  /\ ps.result.ast.kids[2].kids[1].kids[1].kids[1].kids[1].type = "AND"

\* C21: the apostrophe is accepted as a postfix operator only: a token
\* sequence in which an apostrophe does not come right after a variable, a
\* literal, a closing parenthesis or another apostrophe is rejected by the
\* TypeScript parser and by the class-based parsers.
C21_ApostropheOnlyPostfix ==
  ps.pc = "parsed" =>
    LET tokens == ps.lexed.tokens
        IsApostrophe(k) == tokens[k].type = "NOT" /\ tokens[k].value = <<"'">>
        Misplaced(k) ==
          /\ IsApostrophe(k)
          /\ \/ k = 1
             \/ /\ tokens[k - 1].type \notin {"VARIABLE", "LITERAL", "CONSTANT", "RPAREN"}
                /\ ~IsApostrophe(k - 1)
    IN (\E k \in 1..Len(tokens) : Misplaced(k)) => ps.result.threw

\* "'A" parsed by the client library: the apostrophe is consumed as a prefix
\* NOT and the result is NOT(A)
C21_Witness ==
  /\ ps.pc = "parsed" /\ ps.impl = "client"
  /\ ps.input = <<"'", "A">>
  /\ ~ps.result.threw
  /\ ps.result.ast.type = "NOT"
  /\ ps.result.ast.kids[1].type = "VARIABLE"

\* C22: for every variable list of length n and every binding of its
\* variables, getMaxtermNumber(binding, variables) is
\* 2^n - 1 - getMintermNumber(binding, variables), the maxterm field of the
\* binding's row of the truth table.
C22_MaxtermIsComplement ==
  (tt.pc = "returned" /\ tt.job = "getMaxtermNumber") =>
    tt.out.value
      = Pow2(Len(tt.variables)) - 1 - getMintermNumber(tt.bindings, tt.variables)

\* for the variables A, B with A true and B false getMaxtermNumber returns 2,
\* the minterm number, while the row's maxterm is 1
C22_Witness ==
  /\ tt.pc = "returned" /\ tt.job = "getMaxtermNumber"
  /\ tt.variables = <<<<"A">>, <<"B">>>>
  /\ tt.bindings[<<"A">>] /\ ~tt.bindings[<<"B">>]
  /\ tt.out.value = 2
  /\ \E r \in 1..4 :
       LET row == generateTruthTable(tt.ast, tt.variables).rows[r]
       IN row.inputs = tt.bindings /\ row.minterm = 2 /\ row.maxterm = 1

\* C23: the lexer of lexer.ts makes the operator token of every symbolic
\* alias (& . * are AND, | + are OR, ~ ! ' are NOT, ^ is XOR) that does not
\* belong to an identifier, whatever character follows it, and none of these
\* characters causes a lexical error.
C23_AliasesAlwaysTokens ==
  (ps.pc = "tokens" /\ ps.impl = "ts" /\ ps.family = "alias") =>
    /\ ~ps.lexed.threw
    /\ Len(ps.lexed.tokens) >= 3
    /\ ps.lexed.tokens[2].type = ps.ops[1]
    /\ ps.lexed.tokens[2].value = ps.parts[2]

\* "A.1": no pattern of TOKEN_PATTERNS matches the dot before a digit
C23_Witness ==
  /\ ps.pc = "tokens" /\ ps.impl = "ts" /\ ps.family = "alias"
  /\ ps.input = <<"A", ".", "1">>
  /\ ps.lexed.threw

\* C24: every sequence u1 s1 u2 s2 u3 of unary expressions separated by an
\* AND/NAND token or by nothing (juxtaposition) parses, in every parser, into
\* the left-associated chain of AND/NAND nodes, a juxtaposition counting as
\* AND, also when an explicit AND/NAND follows a juxtaposition
C24_MixedConjunctionChain ==
  (ps.pc = "parsed" /\ ps.family = "mixed") =>
    LET Leaf(unary) == [type |-> "VARIABLE", literal |-> FALSE, kids |-> <<>>,
                        name |-> IF Len(unary) = 1 THEN unary ELSE <<unary[2]>>]
        Bin(type, l, r) == [type |-> type, name |-> <<>>, literal |-> FALSE, kids |-> <<l, r>>]
    IN /\ ~ps.result.threw
       /\ Shape(ps.result.ast) =
            Bin(ps.ops[2], Bin(ps.ops[1], Leaf(ps.parts[1]), Leaf(ps.parts[3])),
                Leaf(ps.parts[5]))

\* "A (B) AND C" is rejected by the TypeScript parser: parseFactor leaves its
\* explicit loop at the juxtaposition and its implicit loop stops at AND
C24_Witness ==
  /\ ps.pc = "parsed" /\ ps.impl = "ts" /\ ps.family = "mixed"
  /\ ps.input = <<"A", " ", "(", "B", ")", " ", "A", "N", "D", " ", "C">>
  /\ ps.result.threw

\* C25: the expression returned by quineMcCluskey, read again by the client
\* lexer, parser and evaluator, is accepted, mentions only variables of the
\* call, and is 1 on exactly the input combinations numbered by the minterms
C25_ExpressionReadsBack ==
  qm.pc = "done" =>
    LET lexed == tokenize_js(qm.result.expression, FALSE)
        parsed == parse_js(lexed.tokens)
    IN /\ ~lexed.threw
       /\ ~parsed.threw
       /\ Range(parsed.variables) \subseteq Range(qm.variables)
       /\ \A index \in 0..(Pow2(qm.numVars) - 1) :
            LET output == nodeEvaluate(parsed.ast, RowObject(qm.variables, index), FALSE)
            IN /\ ~output.threw
               /\ (output.value = 1) <=> (index \in Range(qm.minterms))

\* the minterm 3 of A and B gives "AB", which readIdentifier reads as the one
\* variable named AB
C25_Witness ==
  /\ qm.pc = "done" /\ qm.variables = <<<<"A">>, <<"B">>>> /\ qm.minterms = <<3>>
  /\ qm.result.expression = <<"A", "B">>
  /\ LET lexed == tokenize_js(qm.result.expression, FALSE)
     IN /\ ~lexed.threw
        /\ lexed.tokens[1].type = "VARIABLE" /\ lexed.tokens[1].value = <<"A", "B">>
        /\ parse_js(lexed.tokens).variables = <<<<"A", "B">>>>

\* C26: for every number of variables and every ascending minterm list the
\* server copy of quineMcCluskey returns the same prime-implicant patterns in
\* the same order, the same selected implicants in the same order and the
\* same expression as the client's function
C26_ServerCopyAgrees ==
  qm.pc = "returned" =>
    LET Patterns(implicants) == [j \in 1..Len(implicants) |-> implicants[j].binary]
    IN /\ Patterns(qm.server.primeImplicants) = Patterns(qm.client.primeImplicants)
       /\ Patterns(qm.server.essentialImplicants) = Patterns(qm.client.essentialImplicants)
       /\ qm.server.expression = qm.client.expression

\* minterms 1..6 of three variables: no prime implicant is the sole cover of a
\* minterm, so all three selected implicants come from the greedy loop
C26_Witness ==
  /\ qm.pc = "returned" /\ qm.numVars = 3 /\ qm.minterms = <<1, 2, 3, 4, 5, 6>>
  /\ Len(qm.server.primeImplicants) = 6
  /\ Len(qm.server.essentialImplicants) = 3
  /\ qm.server.expression = qm.client.expression

\* C28: throughout a run of quineMcCluskey every implicant created has a
\* pattern of length numVars and a minterm list that is ascending without
\* duplicates, holds input minterms only, has 2^(number of dashes) elements
\* and holds exactly the input combinations its pattern covers
C28_ImplicantsWellFormed ==
  qm.pc \in {"combine", "greedy", "done"} =>
    \A imp \in Range(qm.implicants) \cup Range(qm.primeImplicants) :
       LET dashes == Cardinality({i \in 1..Len(imp.binary) : imp.binary[i] = "-"})
       IN /\ Len(imp.binary) = qm.numVars
          /\ \A j \in 1..(Len(imp.minterms) - 1) : imp.minterms[j] < imp.minterms[j + 1]
          /\ Range(imp.minterms) \subseteq Range(qm.minterms)
          /\ Len(imp.minterms) = Pow2(dashes)
          /\ Range(imp.minterms) =
               {m \in 0..(Pow2(qm.numVars) - 1) : covers(imp, m, qm.numVars)}

\* minterms 0, 1, 2, 3, 5 of three variables, second round: the implicants
\* 00-, 0-0, 0-1, -01, 01- of the first round have been combined into 0--
C28_Witness ==
  /\ qm.pc = "combine" /\ qm.iteration = 2 /\ qm.minterms = <<0, 1, 2, 3, 5>>
  /\ qm.implicants = <<Implicant(<<0, 1, 2, 3>>, <<"0", "-", "-">>)>>
  /\ Implicant(<<1, 5>>, <<"-", "0", "1">>) \in Range(qm.primeImplicants)

\* C29: the combination loop ends, each round counting one up, the implicants
\* of round k having k-1 dashes and the rounds being at most numVars+1; each
\* iteration of the greedy loop after it leaves fewer minterms uncovered, and
\* the loop ends with every input minterm covered, never by its break
C29_LoopsEnd ==
  /\ [](qm.pc = "combine" =>
         /\ qm.iteration <= qm.numVars + 1
         /\ \A imp \in Range(qm.implicants) :
               Cardinality({i \in 1..Len(imp.binary) : imp.binary[i] = "-"}) = qm.iteration)
  /\ [][QMCombine => qm'.iteration = qm.iteration + 1]_vars
  /\ [][QMGreedy => Len(qm'.g.uncovered) < Len(qm.g.uncovered)]_vars
  /\ [](qm.pc \in {"greedy", "done"} => ~qm.g.broke)
  /\ [](qm.pc = "done" => qm.g.uncovered = <<>>)

\* minterms 1..6 of three variables: two rounds, then three iterations of the
\* greedy loop
C29_Witness ==
  /\ qm.pc = "done" /\ qm.minterms = <<1, 2, 3, 4, 5, 6>> /\ qm.iteration = 2
  /\ Len(qm.g.essential) = 3 /\ qm.g.uncovered = <<>> /\ ~qm.g.broke

\* C30: after every completed call of process(expr), whatever calls came
\* before, isProcessing is false, result is null exactly if the call returned
\* false, and error is non-null exactly if result is null
C30_ProviderStateAfterProcess ==
  px.pc = "completed" =>
    /\ ~px.isProcessing
    /\ (px.result = <<>>) <=> ~px.returned
    /\ (px.error # <<>>) <=> (px.result = <<>>)

\* process("A&B&C&D&E&F&G") returns true and sets result, and leaves the
\* message about more than 6 variables in error
C30_Witness ==
  /\ px.pc = "completed" /\ px.returned
  /\ px.expr = <<"A", "&", "B", "&", "C", "&", "D", "&", "E", "&", "F", "&", "G">>
  /\ px.result # <<>> /\ Len(px.result[1].variables) = 7
  /\ px.error # <<>>

\* C27: for every function of 2, 3 or 4 variables each K-map group is a
\* power-of-two number of cells that all hold 1 and whose term is true on
\* exactly the group's cells, the groups together cover every cell holding 1,
\* the sum of products built from them is true on exactly the function's
\* minterms, and "?" is never the result
C27_KMapGroupsCoverExactly ==
  tt.pc = "map" =>
    LET n == Len(tt.variables)
        \* the minterm numbers of the cells of a group
        Minterms(group) ==
          IF tt.impl = "ts" THEN group.cells
          ELSE [i \in 1..Len(group.cells) |->
                  tt.kmap.cellData[group.cells[i].r + 1][group.cells[i].c + 1].minterm]
    IN /\ \A j \in 1..Len(tt.groups) :
            LET minterms == Minterms(tt.groups[j]) \o <<>>
            IN /\ \E e \in 0..n : Len(minterms) = Pow2(e)
               /\ Cardinality(Range(minterms)) = Len(minterms)
               /\ Range(minterms) \subseteq tt.ones
               /\ \A m \in 0..(Pow2(n) - 1) :
                     TermTrue(tt.groups[j].term, tt.variables, m) <=> m \in Range(minterms)
       /\ UNION {Range(Minterms(tt.groups[j])) : j \in 1..Len(tt.groups)} = tt.ones
       /\ tt.sop # <<"?">>
       /\ \A m \in 0..(Pow2(n) - 1) : SopTrue(tt.sop, tt.variables, m) <=> m \in tt.ones

\* the four corners of the 4x4 map, a group that wraps around both edges
C27_Witness ==
  /\ tt.pc = "map" /\ tt.impl = "ts" /\ tt.ones = {0, 2, 8, 10}
  /\ Len(tt.groups) = 1
  /\ Range(tt.groups[1].cells) = {0, 2, 8, 10}
  /\ tt.sop = <<"B", "'", "D", "'">>

====
